---- MODULE Spec2Model ----
(***************************************************************************)
(* trapmux: the trap dispatch engine (trapHandler / processTrap), the      *)
(* configuration assembler (getConfig and its steps) and the signal        *)
(* handlers (SIGHUP reload, SIGUSR2 rotate), as a state machine.           *)
(*                                                                         *)
(* Goroutines of the program: main (start-up getConfig), the SIGHUP        *)
(* handler, the SIGUSR2 handler, one trapHandler call per received trap,   *)
(* and one goroutine per spawned plugin-error action.                      *)
(***************************************************************************)
EXTENDS Integers, Sequences, FiniteSets, TLC

(***************************************************************************)
(* Bounds of the model.                                                    *)
(***************************************************************************)
\* getConfig calls in one run: the start-up load plus the SIGHUP reloads
MaxConfigs == 2
\* traps delivered to trapHandler in one run
MaxTraps == 1
\* SIGUSR2 signals handled in one run
MaxUsr2 == 1
\* packets of one burst, which the listener hands to trapHandler concurrently
MaxBurst == 2

(***************************************************************************)
(* Strings the code inspects character by character are tuples of          *)
(* one-character strings; "" is the empty tuple.                           *)
(***************************************************************************)
EmptyStr == << >>

HasPrefix(s, p) == Len(s) >= Len(p) /\ SubSeq(s, 1, Len(p)) = p

Contains(s, c) == \E i \in 1..Len(s) : s[i] = c

Digits == {"0", "1", "2", "3", "4", "5", "6", "7", "8", "9"}

\* ipRe, ^(?:\d{1,3}\.){3}\d{1,3}$ : four groups of one to three digits
\* separated by three dots; the value of a group is not looked at.
ipReMatch(s) ==
    LET dots == {i \in 1..Len(s) : s[i] = "."}
    IN  /\ Cardinality(dots) = 3
        /\ \A i \in 1..Len(s) : s[i] \in Digits \cup {"."}
        /\ \A i \in (dots \cup {0}) :
              LET nxt == IF \E j \in dots : j > i
                         THEN CHOOSE j \in dots : j > i /\ \A k \in dots : k > i => j <= k
                         ELSE Len(s) + 1
              IN  nxt - i - 1 \in 1..3

\* strings.ToLower on the tokens the documents use
ToLower(tok) ==
    CASE tok = "V1" -> "v1"
      [] tok = "V2C" -> "v2c"
      [] tok = "V3" -> "v3"
      [] tok = "AuthPriv" -> "authpriv"
      [] tok = "AuthNoPriv" -> "authnopriv"
      [] tok = "NoAuthNoPriv" -> "noauthnopriv"
      [] tok = "NoAuth" -> "noauth"
      [] tok = "SHA" -> "sha"
      [] tok = "MD5" -> "md5"
      [] tok = "NoPriv" -> "nopriv"
      [] tok = "AES" -> "aes"
      [] tok = "DES" -> "des"
      [] OTHER -> tok

(***************************************************************************)
(* Values of the program.                                                  *)
(***************************************************************************)
Version1 == "Version1"
Version2c == "Version2c"
Version3 == "Version3"
Versions == {Version1, Version2c, Version3}

actionBreak == "actionBreak"
actionNat == "actionNat"
actionPlugin == "actionPlugin"

filterByVersion == "filterByVersion"
filterBySrcIP == "filterBySrcIP"
filterByAgentAddr == "filterByAgentAddr"
filterByGenericType == "filterByGenericType"
filterBySpecificType == "filterBySpecificType"
filterByOid == "filterByOid"

parseTypeInt == "parseTypeInt"
parseTypeIPSet == "parseTypeIPSet"
parseTypeRegex == "parseTypeRegex"
parseTypeCIDR == "parseTypeCIDR"
parseTypeString == "parseTypeString"

\* the counters trapHandler and processTrap pass to counterInc
TrapCount == "TrapCount"
V1Traps == "V1Traps"
V2cTraps == "V2cTraps"
V3Traps == "V3Traps"
IgnoredTraps == "IgnoredTraps"
HandledTraps == "HandledTraps"
DroppedTraps == "DroppedTraps"
Counters == {TrapCount, V1Traps, V2cTraps, V3Traps, IgnoredTraps, HandledTraps,
             DroppedTraps}

\* no error
nil == "nil"

\* a filter that holds no plugin
NoPlugin == <<0, "none", 0>>

(***************************************************************************)
(* The configuration documents (the parsed JSON) a load may read.          *)
(***************************************************************************)
IpA == <<"1", ".", "2", ".", "3", ".", "4">>
IpB == <<"5", ".", "6", ".", "7", ".", "8">>
IpSetTrusted == <<"i", "p", "s", "e", "t", ":", "t">>

\* a filter stanza: the wildcards are the empty list, the empty string and
\* -1; natIp and port are the action's arguments of these names
Stanza(vers, src, agent, action, natIp, breakAfter) ==
    [SnmpVersions |-> vers, SourceIp |-> src, AgentAddress |-> agent,
     GenericType |-> -1, SpecificType |-> -1, EnterpriseOid |-> EmptyStr,
     ActionName |-> action, natIp |-> natIp, port |-> <<"1", "6", "2">>,
     BreakAfter |-> breakAfter]

Document(ignore, ipsets, filters, errs, reporting) ==
    [ListenAddr |-> "192.0.2.1", ListenPort |-> "1162", Hostname |-> "mux",
     LogLevel |-> "info", PluginPath |-> "plugins",
     IgnoreVersions_str |-> ignore,
     MsgFlags_str |-> "", AuthProto_str |-> "", PrivacyProto_str |-> "",
     AuthPassword |-> "plain", PrivacyPassword |-> "plain",
     IpSets_str |-> ipsets, Filters |-> filters,
     PluginErrorActions |-> errs, Reporting |-> reporting]

\* drop v1, forward the rest, then nat and capture; one error action
DocA ==
    Document(<< >>,
             <<[name |-> <<"t">>, ips |-> <<IpA>>]>>,
             <<Stanza(<<"v1">>, EmptyStr, EmptyStr, "drop", EmptyStr, FALSE),
               Stanza(<< >>, EmptyStr, EmptyStr, "forward", EmptyStr, FALSE),
               Stanza(<< >>, IpSetTrusted, EmptyStr, "nat", IpB, TRUE),
               Stanza(<< >>, EmptyStr, EmptyStr, "capture", EmptyStr, FALSE)>>,
             <<Stanza(<< >>, EmptyStr, EmptyStr, "logger", EmptyStr, FALSE)>>,
             << >>)

\* a forwarder with break_after, then a filter that must never run; two
\* error actions
DocB ==
    Document(<<"1", "v1">>,
             << >>,
             <<Stanza(<< >>, EmptyStr, EmptyStr, "forward", EmptyStr, TRUE),
               Stanza(<< >>, EmptyStr, EmptyStr, "capture", EmptyStr, FALSE)>>,
             <<Stanza(<< >>, EmptyStr, EmptyStr, "logger", EmptyStr, FALSE),
               Stanza(<< >>, EmptyStr, EmptyStr, "nat", IpA, FALSE)>>,
             << >>)

\* all three versions ignored: validateIgnoreVersions fails
DocC ==
    Document(<<"v1", "2c", "3">>,
             << >>,
             <<Stanza(<< >>, EmptyStr, EmptyStr, "forward", EmptyStr, FALSE)>>,
             << >>,
             << >>)

\* a nat without natIp after a plugin: setAction fails on the second filter
DocD ==
    Document(<< >>,
             << >>,
             <<Stanza(<< >>, EmptyStr, EmptyStr, "forward", EmptyStr, FALSE),
               Stanza(<< >>, EmptyStr, EmptyStr, "nat", EmptyStr, FALSE)>>,
             << >>,
             << >>)

\* the agent address is rewritten, and the next filter matches on the
\* rewritten address
DocE ==
    Document(<< >>,
             << >>,
             <<Stanza(<< >>, EmptyStr, IpA, "nat", IpB, FALSE),
               Stanza(<< >>, EmptyStr, IpB, "forward", EmptyStr, FALSE)>>,
             << >>,
             << >>)

Docs == {DocA, DocB, DocC, DocD, DocE}

\* Documents for the steps of the assembler.
IpShort == <<"1", ".", "2", ".", "3">>
IpWide == <<"9", "9", "9", ".", "1", ".", "1", ".", "1">>
IpSetOther == <<"i", "p", "s", "e", "t", ":", "u">>

\* an ipset with an address of three groups: addIpSets fails
DocF ==
    Document(<< >>,
             <<[name |-> <<"t">>, ips |-> <<IpA>>],
               [name |-> <<"u">>, ips |-> <<IpB, IpShort>>]>>,
             <<Stanza(<< >>, IpSetTrusted, EmptyStr, "forward", EmptyStr, FALSE)>>,
             << >>,
             << >>)

\* two ipsets, one with an octet above 255, both referred to
DocG ==
    Document(<<"V3">>,
             <<[name |-> <<"t">>, ips |-> <<IpA, IpWide>>],
               [name |-> <<"u">>, ips |-> <<IpB>>]>>,
             <<Stanza(<< >>, IpSetTrusted, IpSetOther, "forward", EmptyStr, FALSE)>>,
             <<Stanza(<< >>, EmptyStr, IpSetTrusted, "logger", EmptyStr, FALSE)>>,
             << >>)

\* a filter that refers to an ipset the document does not declare
DocH ==
    Document(<< >>,
             <<[name |-> <<"t">>, ips |-> <<IpA>>]>>,
             <<Stanza(<< >>, IpSetTrusted, EmptyStr, "forward", EmptyStr, FALSE),
               Stanza(<< >>, EmptyStr, IpSetOther, "drop", EmptyStr, FALSE)>>,
             << >>,
             << >>)

\* an error action that refers to an ipset the document does not declare
DocI ==
    Document(<< >>,
             <<[name |-> <<"t">>, ips |-> <<IpA>>]>>,
             <<Stanza(<< >>, EmptyStr, EmptyStr, "forward", EmptyStr, FALSE)>>,
             <<Stanza(<< >>, IpSetOther, EmptyStr, "logger", EmptyStr, FALSE)>>,
             << >>)

\* filters with every kind of condition: versions, a pattern, a network, a
\* literal, trap types and an OID; and a filter with none
DocJ ==
    Document(<<"2">>,
             << >>,
             <<[Stanza(<<"v1", "V2C">>, <<"/", "^", "1", ".">>, EmptyStr,
                       "forward", EmptyStr, FALSE)
                  EXCEPT !.GenericType = 6],
               [Stanza(<< >>, EmptyStr, IpA \o <<"/", "3", "2">>, "nat", IpB, FALSE)
                  EXCEPT !.SpecificType = 1],
               [Stanza(<< >>, IpB, EmptyStr, "break", EmptyStr, FALSE)
                  EXCEPT !.EnterpriseOid = <<"^", "1", ".", "3">>],
               Stanza(<< >>, EmptyStr, EmptyStr, "logger", EmptyStr, FALSE)>>,
             <<[Stanza(<< >>, EmptyStr, EmptyStr, "capture", EmptyStr, FALSE)
                  EXCEPT !.GenericType = 0]>>,
             << >>)

\* Documents that fail at more than one step.
\* an unknown version to ignore, unknown v3 flags and a malformed address
DocN ==
    [Document(<<"v4">>,
              <<[name |-> <<"t">>, ips |-> <<IpShort>>]>>,
              <<Stanza(<< >>, EmptyStr, EmptyStr, "forward", EmptyStr, FALSE)>>,
              << >>,
              << >>)
       EXCEPT !.MsgFlags_str = "priv"]

\* unknown v3 flags and a malformed address
DocO ==
    [Document(<< >>,
              <<[name |-> <<"t">>, ips |-> <<IpShort>>]>>,
              <<Stanza(<< >>, EmptyStr, EmptyStr, "forward", EmptyStr, FALSE)>>,
              << >>,
              << >>)
       EXCEPT !.MsgFlags_str = "priv"]

\* a second filter with an undeclared ipset and a nat without natIp, and an
\* error action with an undeclared ipset
DocP ==
    Document(<< >>,
             << >>,
             <<Stanza(<< >>, EmptyStr, EmptyStr, "forward", EmptyStr, FALSE),
               Stanza(<< >>, IpSetOther, EmptyStr, "nat", EmptyStr, FALSE)>>,
             <<Stanza(<< >>, IpSetOther, EmptyStr, "logger", EmptyStr, FALSE)>>,
             << >>)

\* a plugin in each of the three lists, and a plugin path of its own
DocQ ==
    [Document(<< >>,
              << >>,
              <<Stanza(<< >>, EmptyStr, EmptyStr, "forward", EmptyStr, FALSE)>>,
              <<Stanza(<< >>, EmptyStr, EmptyStr, "capture", EmptyStr, FALSE)>>,
              <<"logger">>)
       EXCEPT !.PluginPath = "plugins.d"]

AssemblyDocs == Docs \cup {DocF, DocG, DocH, DocI, DocJ, DocN, DocO, DocP, DocQ}

\* Documents for what a dispatch does and leaves alone.
\* one filter, which drops everything
DocK ==
    Document(<< >>,
             << >>,
             <<Stanza(<< >>, EmptyStr, EmptyStr, "drop", EmptyStr, FALSE)>>,
             << >>,
             << >>)

\* no filter at all
DocL == Document(<< >>, << >>, << >>, << >>, << >>)

\* filters that a v2c trap from IpA matches none of
DocM ==
    Document(<< >>,
             << >>,
             <<Stanza(<<"v1">>, EmptyStr, EmptyStr, "drop", EmptyStr, FALSE),
               Stanza(<< >>, IpB, EmptyStr, "forward", EmptyStr, FALSE)>>,
             <<Stanza(<< >>, EmptyStr, EmptyStr, "logger", EmptyStr, FALSE)>>,
             << >>)

FrameDocs == {DocA, DocK, DocL, DocM}

\* Documents for the counters.
\* v3 ignored, v1 dropped, the rest rewritten and dropped after; one
\* reporter
DocR ==
    Document(<<"v3">>,
             << >>,
             <<Stanza(<<"v1">>, EmptyStr, EmptyStr, "drop", EmptyStr, FALSE),
               Stanza(<< >>, EmptyStr, EmptyStr, "nat", IpB, TRUE)>>,
             << >>,
             <<"logger">>)

\* a document with the SNMP v3 settings given
withV3(doc, flags, auth, priv) ==
    [doc EXCEPT !.MsgFlags_str = flags, !.AuthProto_str = auth,
                !.PrivacyProto_str = priv]

V3Docs ==
    {withV3(DocE, flags, auth, priv) :
        flags \in {"NoAuthNoPriv", "AuthNoPriv", "AuthPriv"},
        auth \in {"NoAuth", "SHA", "MD5"},
        priv \in {"NoPriv", "AES", "DES"}}
    \cup {withV3(DocE, "", "", ""), withV3(DocE, "priv", "SHA", "AES"),
          [withV3(DocE, "AuthPriv", "SHA", "AES") EXCEPT !.PrivacyPassword = "unresolvable"]}

\* the packets the listener delivers
Packet(v, src, agent) ==
    [Version |-> v, SrcIP |-> src, AgentAddress |-> agent,
     GenericTrap |-> 6, SpecificTrap |-> 1, Enterprise |-> EmptyStr]

Packets == {Packet(Version1, IpA, IpA), Packet(Version2c, IpA, IpA),
            Packet(Version2c, IpB, IpB)}

\* one packet of each version
\* Documents for the forwarder's port.
\* a forwarder whose port is no number
DocS ==
    Document(<< >>,
             << >>,
             <<[Stanza(<< >>, EmptyStr, EmptyStr, "forward", EmptyStr, FALSE)
                  EXCEPT !.port = <<"s", "n", "m", "p">>]>>,
             << >>,
             << >>)

\* a forwarder whose port is a number above 65535
DocT ==
    Document(<< >>,
             << >>,
             <<[Stanza(<< >>, EmptyStr, EmptyStr, "forward", EmptyStr, FALSE)
                  EXCEPT !.port = <<"6", "5", "6", "9", "8">>]>>,
             << >>,
             << >>)

\* an error action that forwards, without a port argument
DocU ==
    Document(<< >>,
             << >>,
             <<Stanza(<< >>, EmptyStr, EmptyStr, "logger", EmptyStr, FALSE)>>,
             <<[Stanza(<< >>, EmptyStr, EmptyStr, "forward", EmptyStr, FALSE)
                  EXCEPT !.port = EmptyStr]>>,
             << >>)

ForwardDocs == {DocE, DocS, DocT, DocU}

CounterPackets == {Packet(v, IpA, IpA) : v \in Versions}

(***************************************************************************)
(* The configuration assembler: the steps of getConfig, each computed on   *)
(* the new configuration only.                                             *)
(***************************************************************************)
RECURSIVE validateIgnoreVersionsLoop(_, _, _)
validateIgnoreVersionsLoop(toks, i, acc) ==
    IF i > Len(toks) THEN acc
    ELSE LET c == ToLower(toks[i])
         IN  IF c \in {"v1", "1"}
             THEN validateIgnoreVersionsLoop(toks, i + 1,
                    IF ~acc.ignorev1
                    THEN [acc EXCEPT !.IgnoreVersions = Append(@, Version1),
                                     !.ignorev1 = TRUE]
                    ELSE acc)
             ELSE IF c \in {"v2c", "2c", "2"}
             THEN validateIgnoreVersionsLoop(toks, i + 1,
                    IF ~acc.ignorev2c
                    THEN [acc EXCEPT !.IgnoreVersions = Append(@, Version2c),
                                     !.ignorev2c = TRUE]
                    ELSE acc)
             ELSE IF c \in {"v3", "3"}
             THEN validateIgnoreVersionsLoop(toks, i + 1,
                    IF ~acc.ignorev3
                    THEN [acc EXCEPT !.IgnoreVersions = Append(@, Version3),
                                     !.ignorev3 = TRUE]
                    ELSE acc)
             ELSE [acc EXCEPT !.err = "unsupported or invalid value for general:ignore_version"]

validateIgnoreVersions(doc) ==
    LET r == validateIgnoreVersionsLoop(doc.IgnoreVersions_str, 1,
                 [err |-> nil, IgnoreVersions |-> << >>, ignorev1 |-> FALSE,
                  ignorev2c |-> FALSE, ignorev3 |-> FALSE])
    IN  IF r.err # nil THEN [err |-> r.err, IgnoreVersions |-> r.IgnoreVersions]
        ELSE IF Len(r.IgnoreVersions) > 2
        THEN [err |-> "all three SNMP versions are ignored",
              IgnoreVersions |-> r.IgnoreVersions]
        ELSE [err |-> nil, IgnoreVersions |-> r.IgnoreVersions]

RECURSIVE addIpSetsLoop(_, _, _, _)
addIpSetsLoop(stanzas, i, j, acc) ==
    IF i > Len(stanzas) THEN acc
    ELSE LET ipsName == stanzas[i].name
             ips == stanzas[i].ips
             \* newConfig.IpSets[ipsName] = make(map[string]bool)
             fresh == IF j = 1
                      THEN [n \in DOMAIN acc.IpSets \cup {ipsName} |->
                               IF n = ipsName THEN {} ELSE acc.IpSets[n]]
                      ELSE acc.IpSets
         IN  IF j > Len(ips)
             THEN addIpSetsLoop(stanzas, i + 1, 1, [acc EXCEPT !.IpSets = fresh])
             ELSE IF ipReMatch(ips[j])
             THEN addIpSetsLoop(stanzas, i, j + 1,
                    [acc EXCEPT !.IpSets = [fresh EXCEPT ![ipsName] = @ \cup {ips[j]}]])
             ELSE [acc EXCEPT !.err = "invalid IP address in ipset", !.IpSets = fresh]

\* an addIpSets that takes every address
addIpSetsUnchecked(doc) ==
    [err |-> nil,
     IpSets |-> [name \in {doc.IpSets_str[i].name : i \in DOMAIN doc.IpSets_str} |->
                   LET last == CHOOSE i \in DOMAIN doc.IpSets_str :
                                  /\ doc.IpSets_str[i].name = name
                                  /\ \A k \in DOMAIN doc.IpSets_str :
                                        doc.IpSets_str[k].name = name => k <= i
                   IN  {doc.IpSets_str[last].ips[j] : j \in DOMAIN doc.IpSets_str[last].ips}]]

addIpSets(doc) ==
    addIpSetsLoop(doc.IpSets_str, 1, 1, [err |-> nil, IpSets |-> << >>])

\* the value of a version token, "" for a token that names no version
VersionOfToken(tok) ==
    LET c == ToLower(tok)
    IN  IF c \in {"v1", "1"} THEN Version1
        ELSE IF c \in {"v2c", "2c", "2"} THEN Version2c
        ELSE IF c \in {"v3", "3"} THEN Version3
        ELSE ""

RECURSIVE addSnmpFilterObj(_, _)
addSnmpFilterObj(filter, i) ==
    IF i > Len(filter.SnmpVersions) THEN filter
    ELSE IF VersionOfToken(filter.SnmpVersions[i]) = ""
    THEN [filter EXCEPT !.err = "unsupported or invalid SNMP version"]
    ELSE addSnmpFilterObj(
           [filter EXCEPT !.matchAll = FALSE,
                          !.matchers = Append(@,
                              [filterItem |-> filterByVersion,
                               filterType |-> parseTypeInt,
                               filterValue |-> VersionOfToken(filter.SnmpVersions[i])])],
           i + 1)

\* regexp.Compile and newNetwork on the patterns the documents use: a
\* pattern compiles unless it ends in an open bracket
regexpCompiles(s) == Len(s) = 0 \/ s[Len(s)] # "["

newNetworkParses(s) ==
    \E k \in 1..Len(s) : s[k] = "/" /\ ipReMatch(SubSeq(s, 1, k - 1)) /\ k < Len(s)

\* an addIpFilterObj that does not look the ipset up
addIpFilterObjUnchecked(filter, source, networkEntry, ipSets) ==
    IF filter.err # nil \/ networkEntry = EmptyStr THEN filter
    ELSE LET isSet == HasPrefix(networkEntry, <<"i", "p", "s", "e", "t", ":">>)
         IN  [filter EXCEPT
                !.matchAll = FALSE,
                !.matchers = Append(@,
                    [filterItem |-> source,
                     filterType |-> IF isSet THEN parseTypeIPSet ELSE parseTypeString,
                     filterValue |-> IF isSet
                                     THEN SubSeq(networkEntry, 7, Len(networkEntry))
                                     ELSE networkEntry])]

addIpFilterObj(filter, source, networkEntry, ipSets) ==
    IF filter.err # nil THEN filter
    ELSE IF networkEntry = EmptyStr THEN filter
    ELSE LET f == [filter EXCEPT !.matchAll = FALSE]
             fObj(t, v) == [filterItem |-> source, filterType |-> t, filterValue |-> v]
         IN  IF HasPrefix(networkEntry, <<"i", "p", "s", "e", "t", ":">>)
             THEN LET ipSetName == SubSeq(networkEntry, 7, Len(networkEntry))
                  IN  IF ipSetName \in DOMAIN ipSets
                      THEN [f EXCEPT !.matchers = Append(@, fObj(parseTypeIPSet, ipSetName))]
                      ELSE [f EXCEPT !.err = "invalid IP set name specified"]
             ELSE IF HasPrefix(networkEntry, <<"/">>)
             THEN IF regexpCompiles(SubSeq(networkEntry, 2, Len(networkEntry)))
                  THEN [f EXCEPT !.matchers = Append(@,
                           fObj(parseTypeRegex, SubSeq(networkEntry, 2, Len(networkEntry))))]
                  ELSE [f EXCEPT !.err = "unable to compile regular expressions for IP"]
             ELSE IF Contains(networkEntry, "/")
             THEN IF newNetworkParses(networkEntry)
                  THEN [f EXCEPT !.matchers = Append(@, fObj(parseTypeCIDR, networkEntry))]
                  ELSE [f EXCEPT !.err = "invalid IP/CIDR"]
             ELSE [f EXCEPT !.matchers = Append(@, fObj(parseTypeString, networkEntry))]

addTrapTypeFilterObj(filter, source, trapTypeEntry) ==
    IF filter.err # nil THEN filter
    ELSE IF trapTypeEntry = -1 THEN filter
    ELSE [filter EXCEPT !.matchAll = FALSE,
                        !.matchers = Append(@, [filterItem |-> source,
                                                filterType |-> parseTypeInt,
                                                filterValue |-> trapTypeEntry])]

addOidFilterObj(filter, oid) ==
    IF filter.err # nil THEN filter
    ELSE IF oid = EmptyStr THEN filter
    ELSE IF regexpCompiles(oid)
    THEN [filter EXCEPT !.matchAll = FALSE,
                        !.matchers = Append(@, [filterItem |-> filterByOid,
                                                filterType |-> parseTypeRegex,
                                                filterValue |-> oid])]
    ELSE [filter EXCEPT !.matchAll = FALSE,
                        !.err = "unable to compile regular expression for OID"]

\* the stanza at position lineNumber of its list, with its unexported fields
\* at their zero values
NewFilter(stanza, lineNumber) ==
    [lineNumber |-> lineNumber, SnmpVersions |-> stanza.SnmpVersions, SourceIp |-> stanza.SourceIp,
     AgentAddress |-> stanza.AgentAddress, GenericType |-> stanza.GenericType,
     SpecificType |-> stanza.SpecificType, EnterpriseOid |-> stanza.EnterpriseOid,
     ActionName |-> stanza.ActionName, natIp |-> stanza.natIp, port |-> stanza.port,
     BreakAfter |-> stanza.BreakAfter,
     matchAll |-> FALSE, matchers |-> << >>, actionType |-> "", ActionArg |-> EmptyStr,
     plugin |-> NoPlugin, Port |-> 0, err |-> nil]

\* an addFilterObjs that does not set matchAll first
addFilterObjsNoReset(filter, ipSets) ==
    LET f1 == addSnmpFilterObj(filter, 1)
        f2 == addIpFilterObj(f1, filterBySrcIP, filter.SourceIp, ipSets)
        f3 == addIpFilterObj(f2, filterByAgentAddr, filter.AgentAddress, ipSets)
        f4 == addTrapTypeFilterObj(f3, filterByGenericType, filter.GenericType)
        f5 == addTrapTypeFilterObj(f4, filterBySpecificType, filter.SpecificType)
    IN  addOidFilterObj(f5, filter.EnterpriseOid)

addFilterObjs(filter, ipSets) ==
    LET f0 == [filter EXCEPT !.matchAll = TRUE]
        f1 == addSnmpFilterObj(f0, 1)
        f2 == addIpFilterObj(f1, filterBySrcIP, filter.SourceIp, ipSets)
        f3 == addIpFilterObj(f2, filterByAgentAddr, filter.AgentAddress, ipSets)
        f4 == addTrapTypeFilterObj(f3, filterByGenericType, filter.GenericType)
        f5 == addTrapTypeFilterObj(f4, filterBySpecificType, filter.SpecificType)
    IN  addOidFilterObj(f5, filter.EnterpriseOid)

(***************************************************************************)
(* Plugins.  A load yields a handle of its own, named by the getConfig     *)
(* call, the list and the position of the filter it is bound to.  What a   *)
(* load and a Configure answer is the environment's choice: env names the  *)
(* plugin that cannot be loaded (missing) and the plugin whose Configure   *)
(* returns an error (refusing) during one getConfig call, if any.          *)
(***************************************************************************)
Handle(n, list, i) == <<n, list, i>>

Envs == {[missing |-> "", refusing |-> ""],
         [missing |-> "capture", refusing |-> ""],
         [missing |-> "", refusing |-> "logger"]}

Outcome(env, name) ==
    IF name = env.missing THEN "load"
    ELSE IF name = env.refusing THEN "configure"
    ELSE "ok"

LoadActionPlugin(handle, outcome) ==
    IF outcome = "load" THEN [err |-> "plugin not found", plugin |-> NoPlugin]
    ELSE [err |-> nil, plugin |-> handle]

\* the plugin's Configure: nil unless the environment makes it fail
Configure(outcome) == IF outcome = "configure" THEN "configure failed" ELSE nil

\* strconv.Atoi on the port arguments the documents use: an optional sign
\* and decimal digits
RECURSIVE AtoiDigits(_, _, _)
AtoiDigits(s, i, acc) ==
    IF i > Len(s) THEN [n |-> acc, err |-> nil]
    ELSE IF s[i] \notin Digits THEN [n |-> 0, err |-> "invalid syntax"]
    ELSE AtoiDigits(s, i + 1,
             10 * acc + (CHOOSE d \in 0..9 :
                            <<"0", "1", "2", "3", "4", "5", "6", "7", "8", "9">>[d + 1] = s[i]))

Atoi(s) ==
    IF s = EmptyStr THEN [n |-> 0, err |-> "invalid syntax"]
    ELSE IF s[1] \in {"+", "-"}
    THEN IF Len(s) = 1 THEN [n |-> 0, err |-> "invalid syntax"]
         ELSE LET r == AtoiDigits(s, 2, 0)
              IN  IF s[1] = "-" THEN [r EXCEPT !.n = 0 - @] ELSE r
    ELSE AtoiDigits(s, 1, 0)

\* the value a setAction result carries in err when Configure did not
\* return: the process has ended
Panicked == "panic"

\* the forwarder's Configure: a port that strconv.Atoi does not take makes
\* it panic; the number is converted with uint16(port), and Connect may
\* return an error
trapForwarderConfigure(port_str, outcome) ==
    LET a == Atoi(port_str)
    IN  IF a.err # nil THEN [err |-> Panicked, Port |-> 0]
        ELSE IF outcome = "configure" THEN [err |-> "connect failed", Port |-> a.n % 65536]
        ELSE [err |-> nil, Port |-> a.n % 65536]

\* a setAction that binds whatever it gets
setActionUnchecked(filter, handle, outcome) ==
    IF filter.ActionName \in {"break", "drop"}
    THEN [filter EXCEPT !.actionType = actionBreak]
    ELSE IF filter.ActionName = "nat"
    THEN [filter EXCEPT !.actionType = actionNat, !.ActionArg = filter.natIp]
    ELSE [filter EXCEPT !.actionType = actionPlugin,
                        !.plugin = LoadActionPlugin(handle, outcome).plugin]

setAction(filter, handle, outcome) ==
    IF filter.ActionName \in {"break", "drop"}
    THEN [filter EXCEPT !.actionType = actionBreak]
    ELSE IF filter.ActionName = "nat"
    THEN LET f == [filter EXCEPT !.actionType = actionNat, !.ActionArg = filter.natIp]
         IN  IF f.ActionArg = EmptyStr
             THEN [f EXCEPT !.err = "missing NAT argument"]
             ELSE f
    ELSE LET l == LoadActionPlugin(handle, outcome)
             f == [filter EXCEPT !.actionType = actionPlugin, !.plugin = l.plugin]
             c == trapForwarderConfigure(filter.port, outcome)
         IN  IF l.err # nil
             THEN [f EXCEPT !.err = "unable to load plugin"]
             ELSE IF filter.ActionName = "forward"
             THEN IF c.err = Panicked THEN [f EXCEPT !.err = Panicked]
                  ELSE IF c.err # nil
                  THEN [f EXCEPT !.err = "unable to configure plugin", !.Port = c.Port]
                  ELSE [f EXCEPT !.Port = c.Port]
             ELSE IF Configure(outcome) # nil
             THEN [f EXCEPT !.err = "unable to configure plugin"]
             ELSE f

\* The loop of addFilters / addPluginErrorActions over `stanzas`, from
\* position i.  acc.filters are the filters built so far, acc.loaded the
\* handles loaded and acc.configured those whose Configure returned nil.

\* the filter after setAction (f2) goes into the list
withAction(acc, f2) ==
    [acc EXCEPT !.filters = Append(@, f2),
                !.loaded = IF f2.plugin # NoPlugin THEN @ \cup {f2.plugin} ELSE @,
                !.configured = IF f2.plugin # NoPlugin /\ f2.err = nil
                               THEN @ \cup {f2.plugin} ELSE @,
                !.err = IF f2.err = Panicked THEN nil ELSE f2.err,
                !.exit = IF f2.err = Panicked THEN "panic" ELSE @]

\* the filter after addFilterObjs (f1): an error ends the loop, else setAction
withFilterObjs(acc, f1, n, list, i, env) ==
    IF f1.err # nil
    THEN [acc EXCEPT !.err = f1.err, !.filters = Append(@, f1)]
    ELSE withAction(acc, setAction(f1, Handle(n, list, i), Outcome(env, f1.ActionName)))

RECURSIVE addFiltersLoop(_, _, _, _, _, _, _)
RECURSIVE addFiltersNext(_, _, _, _, _, _, _)
addFiltersNext(stanzas, i, ipSets, n, list, env, acc) ==
    IF acc.err # nil \/ acc.exit # "" THEN acc
    ELSE addFiltersLoop(stanzas, i + 1, ipSets, n, list, env, acc)

addFiltersLoop(stanzas, i, ipSets, n, list, env, acc) ==
    IF i > Len(stanzas) THEN acc
    ELSE addFiltersNext(stanzas, i, ipSets, n, list, env,
            withFilterObjs(acc, addFilterObjs(NewFilter(stanzas[i], i), ipSets),
                           n, list, i, env))

\* an addFilters whose loop goes on where the call before stopped
addFiltersCarried(doc, ipSets, n, env, acc) ==
    addFiltersLoop(doc.Filters, n, ipSets, n, "Filters", env,
                   [acc EXCEPT !.filters = << >>])

addFilters(doc, ipSets, n, env, acc) ==
    addFiltersLoop(doc.Filters, 1, ipSets, n, "Filters", env,
                   [acc EXCEPT !.filters = << >>])

addPluginErrorActions(doc, ipSets, n, env, acc) ==
    addFiltersLoop(doc.PluginErrorActions, 1, ipSets, n, "PluginErrorActions", env,
                   [acc EXCEPT !.filters = << >>])

(***************************************************************************)
(* SNMP v3 arguments.  The numbers are gosnmp's.                           *)
(***************************************************************************)
NoAuthNoPriv == 0
AuthNoPriv == 1
AuthPriv == 3
NoAuth == 1
MD5 == 2
SHA == 3
NoPriv == 1
DES == 2
AES == 3

\* a & b on the two low bits
BitAnd(a, b) ==
    (a % 2) * (b % 2) + 2 * ((a \div 2) % 2) * ((b \div 2) % 2)

\* the secret resolver: a reference that cannot be resolved is an error
GetSecret(ref) ==
    IF ref = "unresolvable" THEN [err |-> "no such secret", plaintext |-> ""]
    ELSE [err |-> nil, plaintext |-> ref]

validateSnmpV3Args(params) ==
    LET flags == ToLower(params.MsgFlags_str)
        auth == ToLower(params.AuthProto_str)
        priv == ToLower(params.PrivacyProto_str)
        MsgFlags == IF flags \in {"noauthnopriv", ""} THEN NoAuthNoPriv
                    ELSE IF flags = "authnopriv" THEN AuthNoPriv
                    ELSE AuthPriv
        AuthProto == IF auth \in {"noauth", ""} THEN NoAuth
                     ELSE IF auth = "sha" THEN SHA
                     ELSE MD5
        PrivacyProto == IF priv \in {"nopriv", ""} THEN NoPriv
                        ELSE IF priv = "aes" THEN AES
                        ELSE DES
        out(e) == [err |-> e, MsgFlags |-> MsgFlags, AuthProto |-> AuthProto,
                   PrivacyProto |-> PrivacyProto]
    IN  IF flags \notin {"noauthnopriv", "", "authnopriv", "authpriv"}
        THEN out("unsupported or invalid value for snmpv3:msg_flags")
        ELSE IF auth \notin {"noauth", "", "sha", "md5"}
        THEN out("invalid value for snmpv3:auth_protocol")
        ELSE IF GetSecret(params.AuthPassword).err # nil
        THEN out("unable to decode secret for auth password")
        ELSE IF priv \notin {"nopriv", "", "aes", "des"}
        THEN out("invalid value for snmpv3:privacy_protocol")
        ELSE IF GetSecret(params.PrivacyPassword).err # nil
        THEN out("unable to decode secret for privacy password")
        ELSE IF BitAnd(MsgFlags, AuthPriv) = 1 /\ AuthProto < 2
        THEN out("v3 config error: no auth protocol set")
        ELSE IF MsgFlags = AuthPriv /\ PrivacyProto < 2
        THEN out("v3 config error: no privacy protocol mode set")
        ELSE out(nil)

(***************************************************************************)
(* Reporting plugins.  live is the value of teConfig (0 for nil) when the  *)
(* loop runs: the plugin path is read through it, `teConfig.General.       *)
(* PluginPath`, and reading it through nil ends the process.  An entry of  *)
(* the list records the snapshot whose path its plugin was looked up in.   *)
(***************************************************************************)
RECURSIVE addReportingPluginsLoop(_, _, _, _, _, _)
addReportingPluginsLoop(reporting, i, live, n, env, acc) ==
    IF i > Len(reporting) THEN acc
    ELSE IF live = 0
    THEN [acc EXCEPT !.exit = "panic"]
    ELSE LET outcome == Outcome(env, reporting[i])
             h == Handle(n, "Reporting", i)
         IN  IF outcome = "load"
             THEN [acc EXCEPT !.exit = "fatal"]
             ELSE IF outcome = "configure"
             THEN [acc EXCEPT !.err = "unable to configure plugin",
                              !.loaded = @ \cup {h}]
             ELSE addReportingPluginsLoop(reporting, i + 1, live, n, env,
                    [acc EXCEPT !.loaded = @ \cup {h},
                                !.configured = @ \cup {h},
                                !.Reporting = Append(@, [PluginName |-> reporting[i],
                                                         plugin |-> h,
                                                         via |-> live])])

addReportingPlugins(doc, live, n, env, acc) ==
    addReportingPluginsLoop(doc.Reporting, 1, live, n, env, acc)

(***************************************************************************)
(* getConfig, up to the point where the new configuration is complete:     *)
(* the n-th call, reading document doc while teConfig is live.  err is the *)
(* error returned, exit says whether the process ended instead, cfg is     *)
(* newConfig.                                                              *)
(***************************************************************************)
Assembled(e, x, c, l, g) ==
    [err |-> e, exit |-> x, cfg |-> c, loaded |-> l, configured |-> g]

\* `newConfig.teConfigured = true` is still to come
withReportingPlugins(cfg, rp) ==
    Assembled(rp.err, rp.exit, [cfg EXCEPT !.Reporting = rp.Reporting],
              rp.loaded, rp.configured)

withPluginErrorActions(doc, n, live, env, cfg, pe) ==
    IF pe.err # nil \/ pe.exit # ""
    THEN Assembled(pe.err, pe.exit, [cfg EXCEPT !.PluginErrorActions = pe.filters],
                   pe.loaded, pe.configured)
    ELSE withReportingPlugins([cfg EXCEPT !.PluginErrorActions = pe.filters],
                              addReportingPlugins(doc, live, n, env, pe))

withFilters(doc, n, live, env, cfg, fl) ==
    IF fl.err # nil \/ fl.exit # ""
    THEN Assembled(fl.err, fl.exit, [cfg EXCEPT !.Filters = fl.filters],
                   fl.loaded, fl.configured)
    ELSE withPluginErrorActions(doc, n, live, env, [cfg EXCEPT !.Filters = fl.filters],
                                addPluginErrorActions(doc, cfg.IpSets, n, env, fl))

withIpSets(doc, n, live, env, cfg, ips) ==
    IF ips.err # nil
    THEN Assembled(ips.err, "", [cfg EXCEPT !.IpSets = ips.IpSets], {}, {})
    ELSE withFilters(doc, n, live, env, [cfg EXCEPT !.IpSets = ips.IpSets],
                     addFilters(doc, ips.IpSets, n, env,
                                [err |-> nil, exit |-> "", filters |-> << >>,
                                 loaded |-> {}, configured |-> {},
                                 Reporting |-> << >>]))

withSnmpV3Args(doc, n, live, env, cfg, v3) ==
    IF v3.err # nil
    THEN Assembled(v3.err, "", [cfg EXCEPT !.MsgFlags = v3.MsgFlags], {}, {})
    ELSE withIpSets(doc, n, live, env, [cfg EXCEPT !.MsgFlags = v3.MsgFlags],
                    addIpSets(doc))

\* a getConfig that looks at the ignored versions after every other step
withIgnoreVersionsLast(doc, n, live, env, cfg, iv) ==
    LET r == withSnmpV3Args(doc, n, live, env,
                            [cfg EXCEPT !.IgnoreVersions = iv.IgnoreVersions],
                            validateSnmpV3Args(doc))
    IN  IF r.err # nil \/ r.exit # "" \/ iv.err = nil THEN r
        ELSE Assembled(iv.err, "", r.cfg, r.loaded, r.configured)

withIgnoreVersions(doc, n, live, env, cfg, iv) ==
    IF iv.err # nil
    THEN Assembled(iv.err, "", [cfg EXCEPT !.IgnoreVersions = iv.IgnoreVersions], {}, {})
    ELSE withSnmpV3Args(doc, n, live, env,
                        [cfg EXCEPT !.IgnoreVersions = iv.IgnoreVersions],
                        validateSnmpV3Args(doc))

\* var newConfig trapmuxConfig: every field at its zero value
NewConfig ==
    [teConfigured |-> FALSE,
     ListenAddr |-> "", ListenPort |-> "", Hostname |-> "", LogLevel |-> "",
     PluginPath |-> "",
     IgnoreVersions |-> << >>,
     MsgFlags |-> NoAuthNoPriv, IpSets |-> << >>, Filters |-> << >>,
     PluginErrorActions |-> << >>, Reporting |-> << >>]

\* newConfig after json.Unmarshal: the fields the document gives; nothing
\* is put into a field the document leaves out
loadConfig(doc) ==
    [NewConfig EXCEPT !.ListenAddr = doc.ListenAddr,
                      !.ListenPort = doc.ListenPort,
                      !.Hostname = doc.Hostname,
                      !.LogLevel = doc.LogLevel,
                      !.PluginPath = doc.PluginPath]

\* the flags of the command line, as flag.Parse leaves them in teCmdLine
\* (the configuration file is the document the load reads)
processCommandLine(args) ==
    [bindAddr |-> args.b, listenPort |-> args.p, debugMode |-> args.d]

\* os.Hostname()
osHostname(os) ==
    IF os.hostname = "" THEN [name |-> "", err |-> "hostname: no name"]
    ELSE [name |-> os.hostname, err |-> nil]

applyCliOverrides(newConfig, cmdLine, os) ==
    LET listenAddr == os.TRAPMUX_LISTEN_ADDRESS
        listenPort == os.TRAPMUX_LISTEN_PORT
        hostname == os.TRAPMUX_HOSTNAME
    IN  [newConfig EXCEPT
           !.ListenAddr = IF listenAddr # "" THEN listenAddr
                          ELSE IF cmdLine.bindAddr # "" THEN cmdLine.bindAddr
                          ELSE @,
           !.ListenPort = IF listenPort # "" THEN listenPort
                          ELSE IF cmdLine.listenPort # "" THEN cmdLine.listenPort
                          ELSE @,
           !.LogLevel = IF cmdLine.debugMode THEN "debug" ELSE @,
           !.Hostname = IF hostname # "" THEN hostname
                        ELSE IF @ = ""
                        THEN IF osHostname(os).err # nil THEN "_undefined"
                             ELSE osHostname(os).name
                        ELSE @]

assemble(doc, cmdLine, os, n, live, env) ==
    withIgnoreVersions(doc, n, live, env,
                       applyCliOverrides(loadConfig(doc), cmdLine, os),
                       validateIgnoreVersions(doc))

(***************************************************************************)
(* Dispatch: the pieces of processTrap and of the filter methods.          *)
(***************************************************************************)
\* a literal pattern, anchored when it starts with ^
RegexMatch(p, str) ==
    IF HasPrefix(p, <<"^">>) THEN HasPrefix(str, SubSeq(p, 2, Len(p)))
    ELSE \E k \in 0..(Len(str) - Len(p)) : SubSeq(str, k + 1, k + Len(p)) = p

\* membership in a network given as address/bits, for 0 and 32 bits
CidrContains(net, ip) ==
    LET k == CHOOSE j \in 1..Len(net) : net[j] = "/"
        bits == SubSeq(net, k + 1, Len(net))
    IN  \/ bits = <<"0">>
        \/ bits = <<"3", "2">> /\ SubSeq(net, 1, k - 1) = ip

evalMatcher(m, tr, ipSets) ==
    LET ip == IF m.filterItem = filterBySrcIP THEN tr.SrcIP ELSE tr.AgentAddress
    IN  CASE m.filterItem = filterByVersion -> tr.SnmpVersion = m.filterValue
          [] m.filterItem = filterByGenericType -> tr.GenericTrap = m.filterValue
          [] m.filterItem = filterBySpecificType -> tr.SpecificTrap = m.filterValue
          [] m.filterItem = filterByOid -> RegexMatch(m.filterValue, tr.Enterprise)
          [] OTHER ->
               CASE m.filterType = parseTypeString -> ip = m.filterValue
                 [] m.filterType = parseTypeIPSet ->
                      m.filterValue \in DOMAIN ipSets /\ ip \in ipSets[m.filterValue]
                 [] m.filterType = parseTypeRegex -> RegexMatch(m.filterValue, ip)
                 [] OTHER -> CidrContains(m.filterValue, ip)

\* every matcher of the filter holds of the trap
isFilterMatch(filter, tr, ipSets) ==
    \A k \in 1..Len(filter.matchers) : evalMatcher(filter.matchers[k], tr, ipSets)

isIgnoredVersion(cfg, version) ==
    \E k \in 1..Len(cfg.IgnoreVersions) : cfg.IgnoreVersions[k] = version

\* a loop that does not look at Dropped
isSkippedNever(tr) == FALSE

\* `if trap.Dropped { continue }`
isSkipped(tr) == tr.Dropped

\* a loop that walks the list from its end
filterDefReversed(filters, i) == filters[Len(filters) - i + 1]

\* the filter the i-th iteration of `range Filters` looks at
filterDef(filters, i) == filters[i]

\* a loop that takes every filter as matched
isMatchedAlways(filter, tr, ipSets) == TRUE

\* `filterDef.matchAll || filterDef.isFilterMatch(trap)`
isMatched(filter, tr, ipSets) == filter.matchAll \/ isFilterMatch(filter, tr, ipSets)

\* error actions started whatever the action returned
errorActionsStartedAlways(err, pluginErrorActions) == 1..Len(pluginErrorActions)

\* the entries of PluginErrorActions that `if err != nil { for ... { go ... } }`
\* starts a goroutine for
errorActionsStarted(err, pluginErrorActions) ==
    IF err # nil THEN 1..Len(pluginErrorActions) ELSE {}

\* a loop without the test of BreakAfter
breaksAfterNever(filter) == FALSE

\* `if filterDef.BreakAfter { trap.Dropped = true ... }`
breaksAfter(filter) == filter.BreakAfter

\* the first position from k on of a filter bound to a plugin, Len + 1 if none
NextPlugin(filters, k) ==
    IF \E j \in k..Len(filters) : filters[j].actionType = actionPlugin
    THEN CHOOSE j \in k..Len(filters) :
            /\ filters[j].actionType = actionPlugin
            /\ \A m \in k..(j - 1) : filters[m].actionType # actionPlugin
    ELSE Len(filters) + 1

(***************************************************************************)
(* State.                                                                  *)
(***************************************************************************)
VARIABLES
    environ,     \* what the process was started with: the flags of the command
                 \* line, the environment variables, the host's name
    teCmdLine,   \* the global filled by processCommandLine
    mainPc,      \* main: "start", "running" (listening) or "exited"
    teConfig,    \* the global pointer: 0 is nil, n the newConfig of the n-th getConfig
    snaps,       \* n -> the newConfig object of the n-th getConfig call
    nConfigs,    \* getConfig calls so far
    configErr,   \* n -> the error the steps of the n-th getConfig call ended with
    inputs,      \* n -> what the n-th getConfig call read: the document, and
                 \* how the plugins it loaded behaved
    plugins,     \* handle -> the plugin's life so far
    hup,         \* the SIGHUP handler inside getConfig
    usr2,        \* the SIGUSR2 handler inside its loop
    trap,        \* t -> the trapHandler call for the t-th packet
    totalTraps,  \* the global counter of trapHandler
    errs,        \* <<t, i, j>> -> the goroutine started for error action j
                 \* when filter i failed on trap t
    capture      \* a trapCapture plugin object, the files it has written and
                 \* the ProcessTrap calls made on it

vars == <<environ, teCmdLine, mainPc, teConfig, snaps, nConfigs, configErr, inputs, plugins, hup, usr2, trap,
          totalTraps, errs, capture>>

Traps == 1..MaxTraps

\* the trapHandler calls of a burst
Burst == 1..MaxBurst

\* a getConfig call that has not completed its assembly
NoSnap == NewConfig

NoPacket == [Version |-> "", SrcIP |-> EmptyStr, AgentAddress |-> EmptyStr,
             GenericTrap |-> 0, SpecificTrap |-> 0, Enterprise |-> EmptyStr]

\* a trapHandler call that has not begun.  incs counts the counterInc calls
\* per counter; reads holds what was read through teConfig and which
\* snapshot teConfig was then (for a counterInc, the counter stands for the
\* Reporting list); calls counts the processTrap calls; events lists, in
\* order, the filters (by lineNumber) whose match was evaluated ("eval"),
\* whose action was invoked ("act") and that set Dropped ("drop"); failed
\* holds the filters whose action returned an error, each with the snapshot
\* whose PluginErrorActions were then started.  seen lists, for every
\* filter evaluated and every action invoked, the agent address the trap
\* carried then; natIp is the argument of the last nat action run on the
\* trap.  loaded is the value of totalTraps that `totalTraps++` read, nth
\* the place of the call among the calls that have written totalTraps back.
NoTrap ==
    [pc |-> "none", pkt |-> NoPacket,
     SnmpVersion |-> "", SrcIP |-> EmptyStr, AgentAddress |-> EmptyStr,
     GenericTrap |-> 0, SpecificTrap |-> 0, Enterprise |-> EmptyStr,
     TrapNumber |-> 0, Dropped |-> FALSE,
     loaded |-> 0, nth |-> 0,
     incs |-> [c \in Counters |-> 0], reads |-> {},
     calls |-> 0, fsnap |-> 0, i |-> 0,
     events |-> << >>, failed |-> {}, seen |-> << >>, natIp |-> EmptyStr]

\* a getConfig call that has not been made
NoInput == [doc |-> << >>, env |-> << >>]

IdleHup == [pc |-> "idle", new |-> 0, k |-> 0]
IdleUsr2 == [pc |-> "idle", snap |-> 0, k |-> 0, signals |-> 0, warned |-> 0]

\* a ProcessTrap call on the capture plugin that has not begun.  used is
\* the value of a.counter the file name was made with, loaded the value
\* `a.counter++` read
NoCall == [pc |-> "none", filename |-> << >>, used |-> 0, loaded |-> 0, err |-> nil]

\* `var ActionPlugin trapCapture`: every field at its zero value.  files
\* maps the name of each file created to the calls that created it, in
\* order
NewCapture ==
    [configured |-> FALSE, dir |-> "", fileExpr |-> "", fileFormat |-> "",
     counter |-> 0, files |-> << >>,
     call |-> [c \in Burst |-> NoCall]]

\* a process started without flags, with none of the variables set, on a
\* host that has a name
PlainEnviron ==
    [args |-> [b |-> "", p |-> "", d |-> FALSE],
     TRAPMUX_LISTEN_ADDRESS |-> "", TRAPMUX_LISTEN_PORT |-> "",
     TRAPMUX_HOSTNAME |-> "", hostname |-> "host"]

\* var teCmdLine trapmuxCommandLine
NoCmdLine == [bindAddr |-> "", listenPort |-> "", debugMode |-> FALSE]

\* the state before main runs, in a process started with e
InitIn(e) ==
    /\ environ = e
    /\ teCmdLine = NoCmdLine
    /\ mainPc = "start"
    /\ teConfig = 0
    /\ snaps = [n \in 1..MaxConfigs |-> NoSnap]
    /\ nConfigs = 0
    /\ configErr = [n \in 1..MaxConfigs |-> nil]
    /\ inputs = [n \in 1..MaxConfigs |-> NoInput]
    /\ plugins = << >>
    /\ hup = IdleHup
    /\ usr2 = IdleUsr2
    /\ trap = [t \in Traps \cup Burst |-> NoTrap]
    /\ totalTraps = 0
    /\ errs = << >>
    /\ capture = NewCapture

Init == InitIn(PlainEnviron)

(***************************************************************************)
(* Plugin handles.                                                         *)
(***************************************************************************)
\* the plugins a getConfig call loaded, added to the table
withLoaded(pl, loaded, configured) ==
    [h \in DOMAIN pl \cup loaded |->
        IF h \in DOMAIN pl THEN pl[h]
        ELSE [state |-> IF h \in configured THEN "configured" ELSE "loaded",
              closes |-> 0, closeErr |-> FALSE, sigusr2 |-> 0,
              early |-> FALSE, late |-> FALSE]]

\* a ProcessTrap or SigUsr2 call on handle h
called(pl, h, what) ==
    [pl EXCEPT ![h] = [@ EXCEPT !.sigusr2 = IF what = "SigUsr2" THEN @ + 1 ELSE @,
                                !.early = @ \/ pl[h].state = "loaded",
                                !.late = @ \/ pl[h].state = "closed"]]

\* a Close call on handle h, which returned err
closed(pl, h, err) ==
    [pl EXCEPT ![h] = [@ EXCEPT !.state = "closed", !.closes = @ + 1,
                                !.closeErr = @ \/ err # nil]]

(***************************************************************************)
(* main: the start-up getConfig; an error is fatal.                        *)
(***************************************************************************)
Starts(docs) ==
    /\ mainPc = "start"
    /\ \E doc \in docs : \E env \in Envs :
         \E cl \in {processCommandLine(environ.args)} :
         \E r \in {assemble(doc, cl, environ, 1, teConfig, env)} :
             /\ teCmdLine' = cl
             /\ nConfigs' = 1
             /\ configErr' = [configErr EXCEPT ![1] = r.err]
             /\ inputs' = [inputs EXCEPT ![1] = [doc |-> doc, env |-> env]]
             /\ plugins' = withLoaded(plugins, r.loaded, r.configured)
             /\ IF r.err # nil \/ r.exit # ""
                THEN /\ mainPc' = "exited"
                     /\ UNCHANGED <<teConfig, snaps>>
                ELSE /\ mainPc' = "running"
                     /\ snaps' = [snaps EXCEPT ![1] = [r.cfg EXCEPT !.teConfigured = TRUE]]
                     /\ teConfig' = 1
    /\ UNCHANGED <<capture, environ, hup, usr2, trap, totalTraps, errs>>

Startup == Starts(Docs)

(***************************************************************************)
(* handleSIGHUP: getConfig on a reload.  The assembly works on newConfig   *)
(* alone; closeHandles then closes the plugins of teConfig.Filters one by  *)
(* one, and the assignment to teConfig comes last.                         *)
(***************************************************************************)
Reloads(docs) ==
    /\ mainPc = "running"
    /\ hup.pc = "idle"
    /\ nConfigs < MaxConfigs
    /\ \E doc \in docs : \E env \in Envs :
         \E n \in {nConfigs + 1} : \E r \in {assemble(doc, teCmdLine, environ, n, teConfig, env)} :
             /\ nConfigs' = n
             /\ configErr' = [configErr EXCEPT ![n] = r.err]
             /\ inputs' = [inputs EXCEPT ![n] = [doc |-> doc, env |-> env]]
             /\ plugins' = withLoaded(plugins, r.loaded, r.configured)
             /\ IF r.exit # ""
                THEN /\ mainPc' = "exited"
                     /\ UNCHANGED <<snaps, hup>>
                ELSE IF r.err # nil
                THEN UNCHANGED <<mainPc, snaps, hup>>
                ELSE /\ snaps' = [snaps EXCEPT ![n] = r.cfg]
                     /\ hup' = [pc |-> "closing", new |-> n, k |-> 1]
                     /\ UNCHANGED mainPc
    /\ UNCHANGED <<capture, environ, teCmdLine, teConfig, usr2, trap, totalTraps, errs>>

Reload == Reloads(Docs)

\* a closeHandles that leaves its loop at the first Close error
afterCloseAborting(h, filters, j, err) ==
    IF err # nil THEN [h EXCEPT !.k = Len(filters) + 1]
    ELSE [h EXCEPT !.k = j + 1]

\* the loop of closeHandles after the Close of filters[j] returned err: the
\* error is logged as a warning and the loop goes on to the next filter
afterClose(h, filters, j, err) == [h EXCEPT !.k = j + 1]

\* one Close of closeHandles; what Close returns is the plugin's choice
\* among results
Closes(results) ==
    /\ mainPc = "running"
    /\ hup.pc = "closing"
    /\ \E err \in results :
         LET filters == snaps[teConfig].Filters
             j == NextPlugin(filters, hup.k)
         IN  /\ j <= Len(filters)
             /\ plugins' = closed(plugins, filters[j].plugin, err)
             /\ hup' = afterClose(hup, filters, j, err)
    /\ UNCHANGED <<capture, environ, teCmdLine, mainPc, teConfig, snaps, nConfigs, configErr, inputs, usr2, trap, totalTraps, errs>>

closeHandles == Closes({nil, "error"})

\* `newConfig.teConfigured = true; teConfig = &newConfig`
Publish ==
    /\ mainPc = "running"
    /\ hup.pc = "closing"
    /\ NextPlugin(snaps[teConfig].Filters, hup.k) > Len(snaps[teConfig].Filters)
    /\ snaps' = [snaps EXCEPT ![hup.new] = [@ EXCEPT !.teConfigured = TRUE]]
    /\ teConfig' = hup.new
    /\ hup' = IdleHup
    /\ UNCHANGED <<capture, environ, teCmdLine, mainPc, nConfigs, configErr, inputs, plugins, usr2, trap, totalTraps, errs>>

(***************************************************************************)
(* handleSIGUSR2.                                                          *)
(***************************************************************************)
\* the signal arrives: `range teConfig.Filters` is evaluated
Usr2Signal ==
    /\ mainPc = "running"
    /\ usr2.pc = "idle"
    /\ usr2.signals < MaxUsr2
    /\ usr2' = [pc |-> IF NextPlugin(snaps[teConfig].Filters, 1)
                          <= Len(snaps[teConfig].Filters)
                       THEN "loop" ELSE "idle",
                snap |-> teConfig, k |-> 1, signals |-> usr2.signals + 1,
                warned |-> usr2.warned]
    /\ UNCHANGED <<capture, environ, teCmdLine, mainPc, teConfig, snaps, nConfigs, configErr, inputs, plugins, hup, trap, totalTraps, errs>>

\* one SigUsr2 call of the loop: an error is logged as a warning
Usr2Step ==
    /\ mainPc = "running"
    /\ usr2.pc = "loop"
    /\ \E err \in {nil, "error"} :
         LET filters == snaps[usr2.snap].Filters
             j == NextPlugin(filters, usr2.k)
         IN  /\ plugins' = called(plugins, filters[j].plugin, "SigUsr2")
             /\ usr2' = [usr2 EXCEPT !.k = j + 1,
                                     !.warned = IF err # nil THEN @ + 1 ELSE @,
                                     !.pc = IF NextPlugin(filters, j + 1) <= Len(filters)
                                            THEN "loop" ELSE "idle"]
    /\ UNCHANGED <<capture, environ, teCmdLine, mainPc, teConfig, snaps, nConfigs, configErr, inputs, hup, trap, totalTraps, errs>>

(***************************************************************************)
(* trapHandler and processTrap, one call per packet.                       *)
(***************************************************************************)
\* counterInc(counter) while teConfig is live: Inc on every reporter of
\* teConfig.Reporting
counterInc(tr, counter, live) ==
    [tr EXCEPT !.incs = [@ EXCEPT ![counter] = @ + 1],
               !.reads = @ \cup {<<counter, live>>}]

versionCounter(version) ==
    CASE version = Version1 -> V1Traps
      [] version = Version2c -> V2cTraps
      [] version = Version3 -> V3Traps

\* the packet arrives: counterInc(TrapCount), and `totalTraps++` reads the
\* counter.  totalTraps is a plain int that no lock guards.
Receives(t, packets) ==
    /\ mainPc = "running"
    /\ trap[t].pc = "none"
    /\ \A u \in DOMAIN trap : u < t => trap[u].pc # "none"
    /\ \E p \in packets :
         trap' = [trap EXCEPT ![t] =
                counterInc([@ EXCEPT !.pc = "counting", !.pkt = p,
                                     !.loaded = totalTraps],
                           TrapCount, teConfig)]
    /\ UNCHANGED <<capture, environ, teCmdLine, mainPc, teConfig, snaps, nConfigs, configErr, inputs, plugins, hup, usr2, totalTraps, errs>>

trapHandler(t) == Receives(t, Packets)

\* `totalTraps++` writes back what it read plus one; then the counter of
\* the packet's version
totalTrapsStore(t) ==
    /\ mainPc = "running"
    /\ trap[t].pc = "counting"
    /\ totalTraps' = trap[t].loaded + 1
    /\ trap' = [trap EXCEPT ![t] =
           counterInc([@ EXCEPT !.pc = "counted",
                                !.nth = 1 + Cardinality({u \in DOMAIN trap :
                                            trap[u].pc \notin {"none", "counting"}})],
                      versionCounter(trap[t].pkt.Version), teConfig)]
    /\ UNCHANGED <<capture, environ, teCmdLine, mainPc, teConfig, snaps, nConfigs, configErr, inputs, plugins, hup, usr2, errs>>

\* a trapHandler that goes on after the ignored counter
returnsIgnoredNever(ignored) == FALSE

\* a trapHandler that returns before the handled counter
returnsIgnoredAlways(ignored) == TRUE

\* `if isIgnoredVersion(p.Version) { counterInc(IgnoredTraps); return }`:
\* whether trapHandler returns here
returnsIgnored(ignored) == ignored

\* the check for ignored versions and, for a trap that is handled, the trap
\* record
checkIgnored(tr, live, cfg, total) ==
    LET ignored == isIgnoredVersion(cfg, tr.pkt.Version)
        tr1 == [tr EXCEPT !.reads = @ \cup {<<"IgnoreVersions", live>>}]
        tr2 == IF ignored THEN counterInc(tr1, IgnoredTraps, live) ELSE tr1
    IN  IF returnsIgnored(ignored)
        THEN [tr2 EXCEPT !.pc = "ignored"]
        ELSE [counterInc(tr2, HandledTraps, live) EXCEPT
                 !.pc = "handled",
                 !.SnmpVersion = tr.pkt.Version,
                 !.SrcIP = tr.pkt.SrcIP,
                 !.AgentAddress = tr.pkt.AgentAddress,
                 !.GenericTrap = tr.pkt.GenericTrap,
                 !.SpecificTrap = tr.pkt.SpecificTrap,
                 !.Enterprise = tr.pkt.Enterprise,
                 !.TrapNumber = total,
                 !.reads = @ \cup {<<"Hostname", live>>}]

trapHandlerCheck(t) ==
    /\ mainPc = "running"
    /\ trap[t].pc = "counted"
    /\ trap' = [trap EXCEPT ![t] = checkIgnored(@, teConfig, snaps[teConfig], totalTraps)]
    /\ UNCHANGED <<capture, environ, teCmdLine, mainPc, teConfig, snaps, nConfigs, configErr, inputs, plugins, hup, usr2, totalTraps, errs>>

\* processTrap is entered: `range teConfig.Filters` is evaluated
processTrapBegin(t) ==
    /\ mainPc = "running"
    /\ trap[t].pc = "handled"
    /\ trap' = [trap EXCEPT ![t] =
           [@ EXCEPT !.calls = @ + 1, !.fsnap = teConfig, !.i = 1,
                     !.reads = @ \cup {<<"Filters", teConfig>>},
                     !.pc = IF Len(snaps[teConfig].Filters) = 0 THEN "done" ELSE "filters"]]
    /\ UNCHANGED <<capture, environ, teCmdLine, mainPc, teConfig, snaps, nConfigs, configErr, inputs, plugins, hup, usr2, totalTraps, errs>>

\* a handler's action started a new round of error actions
startedByErrorActionAgain(err, pluginErrorActions) ==
    IF err # nil THEN 1..Len(pluginErrorActions) ELSE {}

\* the entries of PluginErrorActions started when the action of an error
\* handler has returned err: the `go` statement drops what the call returns
startedByErrorAction(err, pluginErrorActions) == {}

\* processAction gets the trap by value
afterActionCopy(tr, r) == tr

\* the trap after `filterDef.processAction(trap)`: trap is a pointer, what
\* the action wrote is in the one trap record
afterAction(tr, r) == r.tr

\* the action of a filter on a trap: nat rewrites the agent address, a
\* plugin's ProcessTrap answers res
processAction(filter, tr, res) ==
    IF filter.actionType = actionNat
    THEN [tr |-> [tr EXCEPT !.AgentAddress = filter.ActionArg], err |-> nil]
    ELSE IF filter.actionType = actionPlugin
    THEN [tr |-> tr, err |-> res]
    ELSE [tr |-> tr, err |-> nil]

\* a drop that leaves the counter alone
dropUncounted(tr, f, live) ==
    [tr EXCEPT !.Dropped = TRUE,
               !.events = Append(@, [kind |-> "drop", line |-> f.lineNumber])]

\* `trap.Dropped = true; counterInc(DroppedTraps)` by filter f
drop(tr, f, live) ==
    [counterInc(tr, DroppedTraps, live) EXCEPT
        !.Dropped = TRUE,
        !.events = Append(@, [kind |-> "drop", line |-> f.lineNumber])]

\* the loop moves on to the next filter, or ends
advance(tr, filters) ==
    [tr EXCEPT !.i = @ + 1, !.pc = IF tr.i + 1 > Len(filters) THEN "done" ELSE "filters"]

\* the fields of a trap that actions write
Held(tr) == [AgentAddress |-> tr.AgentAddress, Dropped |-> tr.Dropped]

\* the goroutines started for the entries `started` of the error actions of
\* snapshot live, when filter f failed on trap t; res is what the action
\* of a goroutine that has run returned
\* a goroutine that has run returned; tr is the trap at the `go` statement:
\* given is what the trap held then, saw what it held when the goroutine
\* ran, wrote whether the goroutine's action wrote to it
withStarted(es, t, f, started, live, tr) ==
    LET keys == {<<t, f.lineNumber, j>> : j \in started}
    IN  [key \in DOMAIN es \cup keys |->
            IF key \in keys
            THEN [snap |-> live, pc |-> "started", res |-> nil,
                  starts |-> IF key \in DOMAIN es THEN es[key].starts + 1 ELSE 1,
                  given |-> Held(tr), saw |-> Held(tr), wrote |-> FALSE]
            ELSE es[key]]

\* a dispatcher that joins the goroutines it started
awaitedAll(es, t) == {key \in DOMAIN es : key[1] = t /\ es[key].pc = "started"}

\* the goroutines of trap t that processTrap waits for before it goes on:
\* none, a `go` statement returns at once and nothing joins the goroutine
awaited(es, t) == {}

\* one iteration of the loop of processTrap
processTrap(t) ==
    /\ mainPc = "running"
    /\ trap[t].pc = "filters"
    /\ awaited(errs, t) = {}
    /\ LET tr == trap[t]
           cfg == snaps[tr.fsnap]
           f == filterDef(cfg.Filters, tr.i)
           tr1 == [tr EXCEPT !.events = Append(@, [kind |-> "eval", line |-> f.lineNumber]),
                             !.seen = Append(@, [kind |-> "eval", line |-> f.lineNumber,
                                                 agent |-> tr.AgentAddress])]
       IN  IF isSkipped(tr)
           THEN /\ trap' = [trap EXCEPT ![t] = advance(tr, cfg.Filters)]
                /\ UNCHANGED <<plugins, errs>>
           ELSE IF ~isMatched(f, tr, cfg.IpSets)
           THEN /\ trap' = [trap EXCEPT ![t] = advance(tr1, cfg.Filters)]
                /\ UNCHANGED <<plugins, errs>>
           ELSE IF f.actionType = actionBreak
           THEN /\ trap' = [trap EXCEPT ![t] = advance(drop(tr1, f, teConfig), cfg.Filters)]
                /\ UNCHANGED <<plugins, errs>>
           ELSE \E res \in {nil, "error"} :
                  LET r == processAction(f, tr1, res)
                      started == errorActionsStarted(r.err,
                                     snaps[teConfig].PluginErrorActions)
                      tr2 == [afterAction(tr1, r) EXCEPT
                                !.events = Append(@, [kind |-> "act", line |-> f.lineNumber]),
                                !.seen = Append(@, [kind |-> "act", line |-> f.lineNumber,
                                                    agent |-> tr1.AgentAddress]),
                                !.natIp = IF f.actionType = actionNat
                                          THEN f.ActionArg ELSE @,
                                !.failed = IF r.err # nil
                                           THEN @ \cup {[line |-> f.lineNumber,
                                                         snap |-> teConfig]}
                                           ELSE @,
                                !.reads = IF r.err # nil
                                          THEN @ \cup {<<"PluginErrorActions", teConfig>>}
                                          ELSE @]
                      tr3 == IF breaksAfter(f) THEN drop(tr2, f, teConfig) ELSE tr2
                  IN  /\ f.actionType = actionNat => res = nil
                      /\ plugins' = IF f.actionType = actionPlugin
                                    THEN called(plugins, f.plugin, "ProcessTrap")
                                    ELSE plugins
                      /\ errs' = withStarted(errs, t, f, started, teConfig, tr2)
                      /\ trap' = [trap EXCEPT ![t] = advance(tr3, cfg.Filters)]
    /\ UNCHANGED <<capture, environ, teCmdLine, mainPc, teConfig, snaps, nConfigs, configErr, inputs, hup, usr2, totalTraps>>

\* a goroutine started by `go pluginErrorFilters.processAction(trap)` runs:
\* what its action returns goes nowhere
errorAction(key) ==
    /\ mainPc = "running"
    /\ errs[key].pc = "started"
    /\ \E res \in {nil, "error"} :
         LET t == key[1]
             f == snaps[errs[key].snap].PluginErrorActions[key[3]]
             r == processAction(f, trap[t], res)
         IN  /\ f.actionType # actionPlugin => res = nil
             /\ trap' = [trap EXCEPT ![t] =
                    [afterAction(trap[t], r) EXCEPT
                        !.natIp = IF f.actionType = actionNat THEN f.ActionArg ELSE @]]
             /\ plugins' = IF f.actionType = actionPlugin
                           THEN called(plugins, f.plugin, "ProcessTrap")
                           ELSE plugins
             /\ errs' = withStarted([errs EXCEPT ![key] =
                                        [@ EXCEPT !.pc = "done",
                                                  !.res = r.err,
                                                  !.saw = Held(trap[t]),
                                                  !.wrote = f.actionType = actionNat]],
                                    t, [lineNumber |-> key[2]],
                                    startedByErrorAction(r.err,
                                        snaps[teConfig].PluginErrorActions),
                                    teConfig, trap[t])
    /\ UNCHANGED <<capture, environ, teCmdLine, mainPc, teConfig, snaps, nConfigs, configErr, inputs, hup, usr2, totalTraps>>

Next ==
    \/ Startup
    \/ Reload
    \/ closeHandles
    \/ Publish
    \/ Usr2Signal
    \/ Usr2Step
    \/ \E t \in Traps : trapHandler(t)
    \/ \E t \in Traps : totalTrapsStore(t)
    \/ \E t \in Traps : trapHandlerCheck(t)
    \/ \E t \in Traps : processTrapBegin(t)
    \/ \E t \in Traps : processTrap(t)
    \/ \E key \in DOMAIN errs : errorAction(key)

Spec == Init /\ [][Next]_vars

(***************************************************************************)
(* One trap dispatched while configurations are reloaded: the signal       *)
(* handler for SIGHUP, the listener's call of trapHandler for the first    *)
(* packet, and the goroutines that dispatch starts.                        *)
(***************************************************************************)
DispatchNext ==
    \/ Startup
    \/ Reload
    \/ Closes({nil})
    \/ Publish
    \/ trapHandler(1)
    \/ totalTrapsStore(1)
    \/ trapHandlerCheck(1)
    \/ processTrapBegin(1)
    \/ processTrap(1)
    \/ \E key \in DOMAIN errs : errorAction(key)

SpecDispatch == Init /\ [][DispatchNext]_vars

(***************************************************************************)
(* The trapex configuration loader.  Its getConfig serves start-up and     *)
(* reload alike: the results of loadConfig and validateIgnoreVersions are  *)
(* not looked at, closeTrapexHandles walks teConfig.filters, which this    *)
(* loader never fills, and the new configuration is published.             *)
(***************************************************************************)
getConfigTrapex ==
    /\ mainPc \in {"start", "running"}
    /\ nConfigs < MaxConfigs
    /\ \E doc \in Docs : \E n \in {nConfigs + 1} :
         \E iv \in {validateIgnoreVersions(doc)} :
             /\ nConfigs' = n
             /\ configErr' = [configErr EXCEPT ![n] = iv.err]
             /\ inputs' = [inputs EXCEPT ![n] = [doc |-> doc, env |-> << >>]]
             /\ snaps' = [snaps EXCEPT ![n] =
                    [NewConfig EXCEPT !.IgnoreVersions = iv.IgnoreVersions,
                                      !.teConfigured = TRUE]]
             /\ teConfig' = n
             /\ mainPc' = "running"
    /\ UNCHANGED <<capture, environ, teCmdLine, plugins, hup, usr2, trap, totalTraps, errs>>

TrapexNext ==
    \/ getConfigTrapex
    \/ \E t \in Traps : trapHandler(t)
    \/ \E t \in Traps : totalTrapsStore(t)
    \/ \E t \in Traps : trapHandlerCheck(t)
    \/ \E t \in Traps : processTrapBegin(t)

SpecTrapex == Init /\ [][TrapexNext]_vars

(***************************************************************************)
(* Properties.                                                             *)
(***************************************************************************)
\* the handles of the plugins bound in a list of filters
PluginsOf(filters) ==
    {filters[i].plugin : i \in {j \in DOMAIN filters : filters[j].actionType = actionPlugin}}

\* the goroutines started for trap t when its filter at position line failed
StartedFor(t, line) == {key \in DOMAIN errs : key[1] = t /\ key[2] = line}

\* C1: once a filter has set Dropped on a trap (a break/drop action or
\* break_after), no later filter's action is invoked on that trap, and
\* Dropped stays set.
C1_DroppedShortCircuits ==
    \A t \in Traps :
        LET ev == trap[t].events
        IN  \A p \in DOMAIN ev :
                ev[p].kind = "drop" =>
                    /\ trap[t].Dropped
                    /\ \A q \in DOMAIN ev : q > p => ev[q].kind # "act"

\* a dispatch has ended with the trap dropped by a filter that was not the
\* last of its list
C1_Witness ==
    \E t \in Traps :
        LET ev == trap[t].events
        IN  /\ trap[t].pc = "done"
            /\ trap[t].Dropped
            /\ \E p \in DOMAIN ev :
                 /\ ev[p].kind = "drop"
                 /\ ev[p].line < Len(snaps[trap[t].fsnap].Filters)

\* C2: Close is never invoked on a plugin of a snapshot while a dispatch
\* that started on that snapshot is still running.
C2_NoCloseDuringDispatch ==
    [][\A t \in Traps :
          trap[t].pc = "filters" =>
              \A h \in PluginsOf(snaps[trap[t].fsnap].Filters) :
                  plugins'[h].closes = plugins[h].closes]_vars

\* C3: a reload one of whose steps returned an error leaves teConfig on the
\* snapshot published before; what it built is never published.
C3_AllOrNothing ==
    \A n \in 2..MaxConfigs :
        configErr[n] # nil => (teConfig # n /\ ~snaps[n].teConfigured)

\* C4: all the configuration one dispatch uses (the filter list, the error
\* actions, the reporting plugins of the counters it increments) is read
\* from one snapshot.
C4_OneSnapshotPerDispatch ==
    \A t \in Traps :
        \A r1, r2 \in trap[t].reads :
            ( /\ r1[1] \in {"Filters", "PluginErrorActions", DroppedTraps}
              /\ r2[1] \in {"Filters", "PluginErrorActions", DroppedTraps} )
            => r1[2] = r2[2]

\* C5: in every reachable state the snapshot teConfig designates holds no
\* plugin on which Close has been called.
C5_LivePluginsOpen ==
    teConfig # 0 =>
        \A h \in PluginsOf(snaps[teConfig].Filters)
                 \cup PluginsOf(snaps[teConfig].PluginErrorActions) :
            plugins[h].closes = 0

\* C6: once a snapshot has been superseded, Close has been invoked exactly
\* once on every action plugin bound in it, those of the error actions
\* included.
C6_SupersededClosedOnce ==
    \A n \in 1..MaxConfigs :
        (snaps[n].teConfigured /\ teConfig # n) =>
            \A h \in PluginsOf(snaps[n].Filters)
                     \cup PluginsOf(snaps[n].PluginErrorActions) :
                plugins[h].closes = 1

\* C7: ProcessTrap and SigUsr2 are invoked only on a plugin whose Configure
\* has returned successfully, and never on a plugin after its Close.
C7_LifecycleRespected ==
    \A h \in DOMAIN plugins : ~plugins[h].early /\ ~plugins[h].late

\* C8: for one trap the filters are considered in the order of the
\* snapshot's list: what is evaluated, invoked and dropped is logged in
\* ascending position, an action is invoked right after its own filter was
\* evaluated, and the actions invoked are in strictly ascending position.
C8_DeclaredOrder ==
    \A t \in Traps :
        LET ev == trap[t].events
        IN  \A p, q \in DOMAIN ev :
              /\ p < q => ev[p].line <= ev[q].line
              /\ (p < q /\ ev[p].kind = ev[q].kind) => ev[p].line < ev[q].line
              /\ ev[p].kind = "act" =>
                    (p > 1 /\ ev[p - 1] = [kind |-> "eval", line |-> ev[p].line])
              /\ snaps[trap[t].fsnap].Filters[ev[p].line].lineNumber = ev[p].line

\* a dispatch has ended with the actions of two filters invoked
C8_Witness ==
    \E t \in Traps :
        LET ev == trap[t].events
        IN  /\ trap[t].pc = "done"
            /\ \E p, q \in DOMAIN ev :
                 ev[p].kind = "act" /\ ev[q].kind = "act" /\ ev[p].line < ev[q].line

\* C9: a trap of an ignored version is counted in the total, in its
\* version's counter and in the ignored counter, not in handled, and is
\* never given to processTrap; any other trap is counted in handled and
\* given to processTrap exactly once.
C9_IgnoredNeverDispatched ==
    \A t \in Traps :
        LET tr == trap[t]
        IN  tr.pc \notin {"none", "counting", "counted"} =>
              /\ tr.incs[TrapCount] = 1
              /\ \A c \in {V1Traps, V2cTraps, V3Traps} :
                    tr.incs[c] = IF c = versionCounter(tr.pkt.Version) THEN 1 ELSE 0
              /\ \E n \in 1..MaxConfigs :
                    /\ <<"IgnoreVersions", n>> \in tr.reads
                    /\ tr.pc = "ignored" <=> isIgnoredVersion(snaps[n], tr.pkt.Version)
              /\ tr.pc = "ignored" =>
                    /\ tr.incs[IgnoredTraps] = 1
                    /\ tr.incs[HandledTraps] = 0
                    /\ tr.calls = 0
                    /\ tr.events = << >>
              /\ tr.pc # "ignored" =>
                    /\ tr.incs[IgnoredTraps] = 0
                    /\ tr.incs[HandledTraps] = 1
                    /\ tr.calls = IF tr.pc = "handled" THEN 0 ELSE 1

\* trapHandler has returned for a trap of an ignored version
C9_Witness ==
    \E t \in Traps :
        /\ trap[t].pc = "ignored"
        /\ trap[t].incs[IgnoredTraps] = 1

\* C10: when the action of a matched filter returns an error, one handler
\* is started for every entry of the error actions, once, and none when the
\* action succeeds; the failing filter's break_after still drops the trap
\* and otherwise the next filter is still evaluated.
C10_ErrorActionsStartedOnce ==
    \A t \in Traps :
        LET tr == trap[t]
            ev == tr.events
            filters == snaps[tr.fsnap].Filters
        IN  /\ \A p \in DOMAIN ev :
                 ev[p].kind = "act" =>
                    LET fl == {x \in tr.failed : x.line = ev[p].line}
                    IN  IF fl = {}
                        THEN StartedFor(t, ev[p].line) = {}
                        ELSE \E x \in fl :
                               /\ StartedFor(t, x.line) =
                                    {<<t, x.line, j>> :
                                        j \in 1..Len(snaps[x.snap].PluginErrorActions)}
                               /\ \A key \in StartedFor(t, x.line) :
                                    errs[key].starts = 1 /\ errs[key].snap = x.snap
            /\ \A x \in tr.failed :
                 /\ \E p \in DOMAIN ev : ev[p] = [kind |-> "act", line |-> x.line]
                 /\ filters[x.line].BreakAfter =>
                       \E p \in DOMAIN ev : ev[p] = [kind |-> "drop", line |-> x.line]
                 /\ (tr.pc = "done" /\ ~filters[x.line].BreakAfter /\ x.line < Len(filters)) =>
                       \E p \in DOMAIN ev : ev[p] = [kind |-> "eval", line |-> x.line + 1]

\* a dispatch has ended in which a filter with break_after failed and the
\* handlers of two error actions were started
C10_Witness ==
    \E t \in Traps : \E x \in trap[t].failed :
        /\ trap[t].pc = "done"
        /\ snaps[trap[t].fsnap].Filters[x.line].BreakAfter
        /\ Cardinality(StartedFor(t, x.line)) = 2

\* C11: a failing error action starts no error action: for one failing
\* action of the main chain the handlers started are one per entry of the
\* error actions, each started once, whatever the handlers return, and no
\* handler exists that is not that of a failure of the main chain.
C11_ErrorActionsNotRetriggered ==
    /\ \A t \in Traps : \A x \in trap[t].failed :
          /\ Cardinality(StartedFor(t, x.line)) = Len(snaps[x.snap].PluginErrorActions)
          /\ \A key \in StartedFor(t, x.line) : errs[key].starts = 1
    /\ \A key \in DOMAIN errs :
          \E x \in trap[key[1]].failed : x.line = key[2] /\ x.snap = errs[key].snap

\* the action of an error handler has returned an error
C11_Witness ==
    \E key \in DOMAIN errs :
        /\ errs[key].pc = "done"
        /\ errs[key].res # nil
        /\ errs[key].starts = 1

\* C12: after the action (nat or plugin) of a matched filter has run, the
\* trap is dropped by that filter, and the dropped counter incremented,
\* exactly if the filter has break_after, whatever the action returned.
C12_BreakAfterHonoured ==
    \A t \in Traps :
        LET ev == trap[t].events
            filters == snaps[trap[t].fsnap].Filters
        IN  /\ \A p \in DOMAIN ev :
                 ev[p].kind = "act" =>
                    ( filters[ev[p].line].BreakAfter
                      <=> ( /\ p < Len(ev)
                            /\ ev[p + 1] = [kind |-> "drop", line |-> ev[p].line]
                            /\ trap[t].Dropped ) )
            /\ trap[t].incs[DroppedTraps] =
                  Cardinality({p \in DOMAIN ev : ev[p].kind = "drop"})

\* a plugin action with break_after has returned an error and the trap was
\* dropped by its filter
C12_Witness ==
    \E t \in Traps : \E x \in trap[t].failed :
        LET ev == trap[t].events
        IN  /\ trap[t].pc = "done"
            /\ snaps[trap[t].fsnap].Filters[x.line].BreakAfter
            /\ \E p \in DOMAIN ev : ev[p] = [kind |-> "drop", line |-> x.line]
            /\ trap[t].incs[DroppedTraps] = 1

AssemblyNext ==
    \/ Starts(AssemblyDocs)
    \/ Reloads(AssemblyDocs)
    \/ closeHandles
    \/ Publish

SpecAssembly == Init /\ [][AssemblyNext]_vars

V3Next ==
    \/ Starts(V3Docs)
    \/ Reloads(V3Docs)
    \/ closeHandles
    \/ Publish

SpecV3 == Init /\ [][V3Next]_vars

\* the getConfig calls made so far whose steps all returned nil
Built == {n \in 1..nConfigs : configErr[n] = nil /\ snaps[n] # NoSnap}

\* the versions a list of tokens names
Named(toks) == {VersionOfToken(toks[i]) : i \in DOMAIN toks} \ {""}

\* C14: assembly fails exactly if the ignore list holds an unknown token
\* or names all three versions; otherwise the ignored set is the set of
\* versions named, without duplicates, and so the ignored set of every
\* published snapshot is a proper subset of the three versions.
C14_IgnoredSetProper ==
    \A n \in 1..nConfigs :
        LET toks == inputs[n].doc.IgnoreVersions_str
            unknown == \E i \in DOMAIN toks : VersionOfToken(toks[i]) = ""
            iv == snaps[n].IgnoreVersions
        IN  /\ (unknown \/ Named(toks) = Versions) => configErr[n] # nil
            /\ snaps[n].teConfigured =>
                  /\ {iv[i] : i \in DOMAIN iv} = Named(toks)
                  /\ Cardinality(Named(toks)) = Len(iv)
                  /\ {iv[i] : i \in DOMAIN iv} # Versions

\* C15: validateSnmpV3Args accepts a combination only if flags with Auth
\* come with an auth protocol other than NoAuth, and flags with Priv with a
\* privacy protocol other than NoPriv.
C15_V3CombinationChecked ==
    \A n \in 1..nConfigs :
        LET d == inputs[n].doc
            flags == ToLower(d.MsgFlags_str)
        IN  configErr[n] = nil =>
              /\ flags \in {"authnopriv", "authpriv"} =>
                    ToLower(d.AuthProto_str) \in {"sha", "md5"}
              /\ flags = "authpriv" =>
                    ToLower(d.PrivacyProto_str) \in {"aes", "des"}

\* four groups of one to three digits with a dot between them
DottedQuad(s) ==
    \E a, b, c \in 1..Len(s) :
        /\ a < b /\ b < c
        /\ \A i \in 1..Len(s) : IF i \in {a, b, c} THEN s[i] = "." ELSE s[i] \in Digits
        /\ a - 1 \in 1..3 /\ b - a - 1 \in 1..3
        /\ c - b - 1 \in 1..3 /\ Len(s) - c \in 1..3

\* the addresses a document lists for its ipsets, and the names it declares
AddressesOf(doc) ==
    UNION {{doc.IpSets_str[i].ips[j] : j \in DOMAIN doc.IpSets_str[i].ips} :
              i \in DOMAIN doc.IpSets_str}

DeclaredIn(doc) == {doc.IpSets_str[i].name : i \in DOMAIN doc.IpSets_str}

\* the stanzas of both lists of a document, and the filters of both lists
\* of a configuration
StanzasOf(doc) ==
    {doc.Filters[i] : i \in DOMAIN doc.Filters}
    \cup {doc.PluginErrorActions[i] : i \in DOMAIN doc.PluginErrorActions}

FiltersOf(cfg) ==
    {cfg.Filters[i] : i \in DOMAIN cfg.Filters}
    \cup {cfg.PluginErrorActions[i] : i \in DOMAIN cfg.PluginErrorActions}

\* the ipset names a stanza refers to
RefersTo(stanza) ==
    {SubSeq(e, 7, Len(e)) :
        e \in {x \in {stanza.SourceIp, stanza.AgentAddress} :
                  Len(x) >= 6 /\ SubSeq(x, 1, 6) = <<"i", "p", "s", "e", "t", ":">>}}

\* C16: assembly fails if an address of an ipset is no dotted quad; in
\* every snapshot built the members of every ipset are dotted quads (an
\* octet above 255 is let through) and are the addresses the document
\* lists; the live snapshot is never that of a rejected document.
C16_IpSetsWellFormed ==
    /\ \A n \in 1..nConfigs :
          (\E ip \in AddressesOf(inputs[n].doc) : ~DottedQuad(ip)) =>
              (configErr[n] # nil /\ teConfig # n /\ ~snaps[n].teConfigured)
    /\ \A n \in Built :
          /\ DOMAIN snaps[n].IpSets = DeclaredIn(inputs[n].doc)
          /\ UNION {snaps[n].IpSets[name] : name \in DOMAIN snaps[n].IpSets}
                = AddressesOf(inputs[n].doc)
          /\ \A name \in DOMAIN snaps[n].IpSets :
                \A ip \in snaps[n].IpSets[name] : DottedQuad(ip)
    /\ teConfig # 0 => teConfig \in Built

\* a document with a malformed address was rejected while the live
\* snapshot holds an ipset with an octet above 255
C16_Witness ==
    /\ \E n \in 1..nConfigs : inputs[n].doc = DocF /\ configErr[n] # nil
    /\ teConfig # 0
    /\ \E name \in DOMAIN snaps[teConfig].IpSets : IpWide \in snaps[teConfig].IpSets[name]

\* C17: in every snapshot built every ipset matcher of every filter of
\* both lists names a key of that snapshot's ipsets; a stanza referring to
\* an ipset the document does not declare makes assembly fail.
C17_IpSetMatchersResolve ==
    /\ \A n \in Built : \A f \in FiltersOf(snaps[n]) :
          \A k \in DOMAIN f.matchers :
              f.matchers[k].filterType = parseTypeIPSet =>
                  f.matchers[k].filterValue \in DOMAIN snaps[n].IpSets
    /\ \A n \in 1..nConfigs :
          (\E st \in StanzasOf(inputs[n].doc) :
               RefersTo(st) \ DeclaredIn(inputs[n].doc) # {}) =>
              (configErr[n] # nil /\ teConfig # n)

\* a snapshot with ipset matchers in both lists was built, and a document
\* whose error action refers to an undeclared ipset was rejected
C17_Witness ==
    /\ \E n \in Built :
          /\ \E i \in DOMAIN snaps[n].Filters :
               \E k \in DOMAIN snaps[n].Filters[i].matchers :
                  snaps[n].Filters[i].matchers[k].filterType = parseTypeIPSet
          /\ \E i \in DOMAIN snaps[n].PluginErrorActions :
               \E k \in DOMAIN snaps[n].PluginErrorActions[i].matchers :
                  snaps[n].PluginErrorActions[i].matchers[k].filterType = parseTypeIPSet
    /\ \E n \in 1..nConfigs : inputs[n].doc = DocI /\ configErr[n] # nil

\* the fields of a filter that are no wildcard, the versions counted one by
\* one
Conditions(f) ==
    Len(f.SnmpVersions)
    + (IF f.SourceIp # EmptyStr THEN 1 ELSE 0)
    + (IF f.AgentAddress # EmptyStr THEN 1 ELSE 0)
    + (IF f.GenericType # -1 THEN 1 ELSE 0)
    + (IF f.SpecificType # -1 THEN 1 ELSE 0)
    + (IF f.EnterpriseOid # EmptyStr THEN 1 ELSE 0)

\* C18: in every snapshot built, matchAll of a filter is true exactly if
\* its matcher list is empty, which is exactly if every field of the stanza
\* is a wildcard; one matcher is emitted per field that is no wildcard, so
\* no trap-type matcher holds -1.
C18_MatchAllIffNoMatchers ==
    \A n \in Built : \A f \in FiltersOf(snaps[n]) :
        /\ f.matchAll <=> f.matchers = << >>
        /\ f.matchers = << >> <=> Conditions(f) = 0
        /\ Len(f.matchers) = Conditions(f)
        /\ \A k \in DOMAIN f.matchers :
              f.matchers[k].filterItem \in {filterByGenericType, filterBySpecificType}
                  => f.matchers[k].filterValue # -1

\* a snapshot was built with a filter of wildcards only and a filter with
\* one trap type given and the other left at -1
C18_Witness ==
    \E n \in Built :
        /\ \E f \in FiltersOf(snaps[n]) : f.matchAll /\ Conditions(f) = 0
        /\ \E f \in FiltersOf(snaps[n]) :
              ~f.matchAll /\ f.GenericType = -1 /\ f.SpecificType # -1

\* C19: in every snapshot built every filter of both lists holds a usable
\* action: the break sentinel for break and drop, nat with its natIp, which
\* is not empty, or its own plugin, loaded and configured; a nat without
\* natIp, or a plugin that cannot be loaded or configured, makes assembly
\* fail.
C19_ActionsBound ==
    /\ \A n \in Built :
          \A list \in {"Filters", "PluginErrorActions"} :
              \A i \in DOMAIN snaps[n][list] :
                  LET f == snaps[n][list][i]
                  IN  IF f.ActionName \in {"break", "drop"}
                      THEN f.actionType = actionBreak
                      ELSE IF f.ActionName = "nat"
                      THEN /\ f.actionType = actionNat
                           /\ f.ActionArg = f.natIp
                           /\ f.ActionArg # EmptyStr
                      ELSE /\ f.actionType = actionPlugin
                           /\ f.plugin = Handle(n, list, i)
                           /\ f.plugin \in DOMAIN plugins
                           /\ plugins[f.plugin].state \in {"configured", "closed"}
    /\ \A n \in 1..nConfigs :
          (\E st \in StanzasOf(inputs[n].doc) :
               \/ st.ActionName = "nat" /\ st.natIp = EmptyStr
               \/ st.ActionName \in {inputs[n].env.missing, inputs[n].env.refusing})
          => (configErr[n] # nil /\ teConfig # n)

\* a snapshot with a break, a nat and plugins is live, and a load failed on
\* a plugin the environment lacks
C19_Witness ==
    /\ teConfig # 0
    /\ {f.actionType : f \in FiltersOf(snaps[teConfig])}
          = {actionBreak, actionNat, actionPlugin}
    /\ \E n \in 1..nConfigs :
          /\ configErr[n] # nil
          /\ inputs[n].env.missing # ""
          /\ \E st \in StanzasOf(inputs[n].doc) : st.ActionName = inputs[n].env.missing

\* a list of filters without the handles of its plugins
WithoutHandles(filters) ==
    [i \in DOMAIN filters |-> [filters[i] EXCEPT !.plugin = NoPlugin]]

FrameNext ==
    \/ Starts(FrameDocs)
    \/ Reloads(FrameDocs)
    \/ Closes({nil})
    \/ Publish
    \/ trapHandler(1)
    \/ totalTrapsStore(1)
    \/ trapHandlerCheck(1)
    \/ processTrapBegin(1)
    \/ processTrap(1)
    \/ \E key \in DOMAIN errs : errorAction(key)

SpecFrame == Init /\ [][FrameNext]_vars

\* the filters of a list that drop a trap they match: by their action or by
\* break_after
Dropping(filters) ==
    {i \in DOMAIN filters : filters[i].actionType = actionBreak \/ filters[i].BreakAfter}

\* C21: in one dispatch the dropped counter is incremented once if the
\* trap is dropped and not at all otherwise, however many filters of the
\* list drop; a dispatch through a snapshot whose one filter matches all
\* and drops ends with the trap dropped.
C21_DroppedCountedOnce ==
    \A t \in Traps :
        LET tr == trap[t]
        IN  /\ tr.incs[DroppedTraps] = IF tr.Dropped THEN 1 ELSE 0
            /\ Cardinality({p \in DOMAIN tr.events : tr.events[p].kind = "drop"})
                  = IF tr.Dropped THEN 1 ELSE 0
            /\ ( /\ tr.pc = "done"
                 /\ Len(snaps[tr.fsnap].Filters) = 1
                 /\ snaps[tr.fsnap].Filters[1].matchAll
                 /\ snaps[tr.fsnap].Filters[1].actionType = actionBreak )
               => tr.Dropped

\* a dispatch has ended with the trap dropped, through a list in which two
\* filters that drop match the trap
C21_Witness ==
    \E t \in Traps :
        LET tr == trap[t]
        IN  /\ tr.pc = "done"
            /\ tr.Dropped
            /\ tr.incs[DroppedTraps] = 1
            /\ Cardinality({i \in Dropping(snaps[tr.fsnap].Filters) :
                    \/ snaps[tr.fsnap].Filters[i].matchAll
                    \/ isFilterMatch(snaps[tr.fsnap].Filters[i], tr,
                                     snaps[tr.fsnap].IpSets)}) >= 2

\* the trap record trapHandler builds from the packet of a call
Received(tr) ==
    [SnmpVersion |-> tr.pkt.Version, SrcIP |-> tr.pkt.SrcIP,
     AgentAddress |-> tr.pkt.AgentAddress, GenericTrap |-> tr.pkt.GenericTrap,
     SpecificTrap |-> tr.pkt.SpecificTrap, Enterprise |-> tr.pkt.Enterprise]

\* no filter of the list matches the trap as it was received
Unmatched(tr, cfg) ==
    \A i \in DOMAIN cfg.Filters :
        /\ ~cfg.Filters[i].matchAll
        /\ ~isFilterMatch(cfg.Filters[i], Received(tr), cfg.IpSets)

\* C22: when no filter of the snapshot matches the trap (a snapshot without
\* filters included), processTrap invokes no action, starts no error
\* action, increments no counter and leaves every field of the trap as
\* trapHandler built it: not dropped, the agent address that of the packet.
C22_UnmatchedTrapUntouched ==
    \A t \in Traps :
        LET tr == trap[t]
        IN  (tr.pc \in {"filters", "done"} /\ Unmatched(tr, snaps[tr.fsnap])) =>
              /\ \A p \in DOMAIN tr.events : tr.events[p].kind = "eval"
              /\ tr.failed = {}
              /\ {key \in DOMAIN errs : key[1] = t} = {}
              /\ tr.incs = [c \in Counters |->
                               IF c \in {TrapCount, HandledTraps,
                                         versionCounter(tr.pkt.Version)}
                               THEN 1 ELSE 0]
              /\ ~tr.Dropped
              /\ tr.natIp = EmptyStr
              /\ [SnmpVersion |-> tr.SnmpVersion, SrcIP |-> tr.SrcIP,
                  AgentAddress |-> tr.AgentAddress, GenericTrap |-> tr.GenericTrap,
                  SpecificTrap |-> tr.SpecificTrap, Enterprise |-> tr.Enterprise]
                    = Received(tr)

\* a dispatch has ended in which every filter of a list of two was
\* evaluated and none matched
C22_Witness ==
    \E t \in Traps :
        LET tr == trap[t]
        IN  /\ tr.pc = "done"
            /\ Len(snaps[tr.fsnap].Filters) = 2
            /\ Unmatched(tr, snaps[tr.fsnap])
            /\ Len(tr.events) = 2
            /\ ~tr.Dropped

(***************************************************************************)
(* The settings of the listener: processes started with and without the    *)
(* flags -b and -p, with and without the TRAPMUX_ variables, on hosts with *)
(* and without a name, loading documents with and without the settings.    *)
(***************************************************************************)
Environs ==
    {[args |-> [b |-> b, p |-> p, d |-> (b # "" /\ p # "")],
      TRAPMUX_LISTEN_ADDRESS |-> ea, TRAPMUX_LISTEN_PORT |-> ep,
      TRAPMUX_HOSTNAME |-> eh, hostname |-> hn] :
        b \in {"", "198.51.100.2"}, p \in {"", "2162"},
        ea \in {"", "203.0.113.3"}, ep \in {"", "3162"},
        eh \in {"", "env-name"}, hn \in {"", "host"}}

\* DocE as it is, and without listen address, listen port and hostname
OverrideDocs ==
    {DocE, [DocE EXCEPT !.ListenAddr = "", !.ListenPort = "", !.Hostname = ""]}

InitOverrides == \E e \in Environs : InitIn(e)

OverridesNext ==
    \/ Starts(OverrideDocs)
    \/ Reloads(OverrideDocs)
    \/ closeHandles
    \/ Publish

SpecOverrides == InitOverrides /\ [][OverridesNext]_vars

\* the defaults the configuration type declares for the listener
DefaultListenAddr == "0.0.0.0"
DefaultListenPort == "162"

\* the first of a list of sources that is not empty
RECURSIVE FirstSet(_)
FirstSet(sources) ==
    IF Len(sources) = 1 \/ Head(sources) # "" THEN Head(sources)
    ELSE FirstSet(Tail(sources))

\* C23: in every snapshot built the listen address and the listen port are
\* the first non-empty of environment variable, command-line flag,
\* configuration file and default, and the hostname is the first non-empty
\* of environment variable, configuration file and the name the OS gives,
\* or `_undefined`.
C23_OverridePrecedence ==
    \A n \in Built :
        LET d == inputs[n].doc
        IN  /\ snaps[n].ListenAddr =
                  FirstSet(<<environ.TRAPMUX_LISTEN_ADDRESS, environ.args.b,
                             d.ListenAddr, DefaultListenAddr>>)
            /\ snaps[n].ListenPort =
                  FirstSet(<<environ.TRAPMUX_LISTEN_PORT, environ.args.p,
                             d.ListenPort, DefaultListenPort>>)
            /\ snaps[n].Hostname =
                  FirstSet(<<environ.TRAPMUX_HOSTNAME, d.Hostname,
                             environ.hostname, "_undefined">>)

\* the action plugins bound in a snapshot: those of its filters and those of
\* its error actions
BoundIn(cfg) == PluginsOf(cfg.Filters) \cup PluginsOf(cfg.PluginErrorActions)

\* C24: a step of the SIGUSR2 handler leaves teConfig, every snapshot and
\* the Close count of every plugin as they were; and when the handler has
\* gone through a signal, SigUsr2 has been invoked on every action plugin
\* bound in the snapshot that was live when the signal came, once for each
\* signal at most, whatever the calls returned.
C24_RotateSignalsEveryPlugin ==
    [][usr2' # usr2 =>
          /\ teConfig' = teConfig
          /\ snaps' = snaps
          /\ \A h \in DOMAIN plugins : plugins'[h].closes = plugins[h].closes
          /\ usr2'.pc = "idle" =>
                \A h \in BoundIn(snaps[usr2'.snap]) :
                    /\ plugins'[h].sigusr2 >= 1
                    /\ plugins'[h].sigusr2 <= usr2'.signals]_vars

\* the handles of the reporting plugins of a snapshot
ReportersOf(cfg) == {cfg.Reporting[i].plugin : i \in DOMAIN cfg.Reporting}

\* C25: whenever no reload is under way, every plugin whose Configure has
\* returned nil and on which Close has not been called is bound in the live
\* snapshot; so the plugins a failed assembly had configured before the
\* step that failed have been closed.
C25_NoHandleLeaked ==
    (mainPc = "running" /\ hup.pc = "idle") =>
        \A h \in DOMAIN plugins :
            plugins[h].state = "configured" =>
                h \in BoundIn(snaps[teConfig]) \cup ReportersOf(snaps[teConfig])

(***************************************************************************)
(* The listener: a burst of packets, each handed to its own trapHandler    *)
(* call, the calls running side by side up to the call of processTrap.     *)
(***************************************************************************)
ListenerDocs == {DocA, DocB}

ListenerNext ==
    \/ Starts(ListenerDocs)
    \/ \E t \in Burst : trapHandler(t)
    \/ \E t \in Burst : totalTrapsStore(t)
    \/ \E t \in Burst : trapHandlerCheck(t)

SpecListener == Init /\ [][ListenerNext]_vars

\* the calls that have gone through `totalTraps++`, and those that have
\* built their trap record
Counted == {t \in DOMAIN trap : trap[t].pc \notin {"none", "counting"}}

Stamped == {t \in DOMAIN trap : trap[t].pc \in {"handled", "filters", "done"}}

\* C26: the trap total is the number of traps counted, no increment is
\* lost; and the trap numbers of two traps differ and are in the order in
\* which the traps were counted.
C26_TrapCounterAtomic ==
    /\ totalTraps = Cardinality(Counted)
    /\ \A t, u \in Stamped :
          /\ t # u => trap[t].TrapNumber # trap[u].TrapNumber
          /\ trap[t].nth < trap[u].nth => trap[t].TrapNumber < trap[u].TrapNumber

\* C27: a trap that has reached processTrap is run through the filters of
\* the snapshot its version was checked against, and that snapshot does
\* not ignore the trap's version.
C27_DispatchedNotIgnored ==
    \A t \in Traps :
        trap[t].pc \in {"filters", "done"} =>
            /\ <<"IgnoreVersions", trap[t].fsnap>> \in trap[t].reads
            /\ ~isIgnoredVersion(snaps[trap[t].fsnap], trap[t].SnmpVersion)

(***************************************************************************)
(* Dispatch of one trap by a goroutine that keeps running: trapHandler's   *)
(* call of processTrap and every iteration of its loop are taken when they *)
(* can be, a ProcessTrap call made by the loop returns within its          *)
(* iteration.  Nothing is assumed of the goroutines of the error actions,  *)
(* of the signal handlers or of the listener: each may stay where it is    *)
(* for ever.                                                               *)
(***************************************************************************)
TerminationDocs == {DocA, DocB, DocL}

TerminationNext ==
    \/ Starts(TerminationDocs)
    \/ Reloads(TerminationDocs)
    \/ Closes({nil})
    \/ Publish
    \/ trapHandler(1)
    \/ totalTrapsStore(1)
    \/ trapHandlerCheck(1)
    \/ processTrapBegin(1)
    \/ processTrap(1)
    \/ \E key \in DOMAIN errs : errorAction(key)

SpecTermination ==
    /\ Init
    /\ [][TerminationNext]_vars
    /\ WF_vars(processTrapBegin(1))
    /\ WF_vars(processTrap(1))

\* C28: a trap handed to processTrap gets to the end of the filter list,
\* whatever the goroutines of the error actions do; the loop looks at each
\* filter of the list once at most.
C28_DispatchTerminates ==
    /\ \A t \in Traps : (trap[t].pc = "handled") ~> (trap[t].pc = "done")
    /\ [](\A t \in Traps :
             trap[t].pc \in {"filters", "done"} =>
                /\ trap[t].i <= Len(snaps[trap[t].fsnap].Filters) + 1
                /\ Len(trap[t].events) <= 3 * Len(snaps[trap[t].fsnap].Filters)
                /\ \A p, q \in DOMAIN trap[t].events :
                      (p < q /\ trap[t].events[p].kind = "eval"
                             /\ trap[t].events[q].kind = "eval")
                      => trap[t].events[p].line < trap[t].events[q].line)

\* a dispatch has ended while two goroutines it started for error actions
\* have not run
C28_Witness ==
    \E t \in Traps :
        /\ trap[t].pc = "done"
        /\ Cardinality({key \in DOMAIN errs : key[1] = t /\ errs[key].pc = "started"}) = 2

\* C29: the goroutine of an error action does not write to the trap, and
\* the trap it reads is as it was when the goroutine was started: no write
\* of the dispatcher (a nat rewrite, Dropped) comes in between.
C29_ErrorHandlersReadOnly ==
    \A key \in DOMAIN errs :
        errs[key].pc = "done" =>
            /\ ~errs[key].wrote
            /\ errs[key].saw = errs[key].given

\* what each step of getConfig returns for a document when run by itself,
\* in the order of the steps; the plugin steps run in environment env as
\* the n-th call
NothingLoaded ==
    [err |-> nil, exit |-> "", filters |-> << >>, loaded |-> {}, configured |-> {},
     Reporting |-> << >>]

StepErrors(doc, n, env) ==
    <<validateIgnoreVersions(doc).err,
      validateSnmpV3Args(doc).err,
      addIpSets(doc).err,
      addFilters(doc, addIpSets(doc).IpSets, n, env, NothingLoaded).err,
      addPluginErrorActions(doc, addIpSets(doc).IpSets, n, env, NothingLoaded).err,
      addReportingPlugins(doc, IF n = 1 THEN 0 ELSE 1, n, env, NothingLoaded).err>>

\* the first error of a list of results, nil if there is none
RECURSIVE FirstError(_)
FirstError(results) ==
    IF results = << >> THEN nil
    ELSE IF Head(results) # nil THEN Head(results)
    ELSE FirstError(Tail(results))

\* the plugins the n-th getConfig call loaded for the list named
LoadedFor(n, lists) == {h \in DOMAIN plugins : h[1] = n /\ h[2] \in lists}

\* C30: the error getConfig returns is that of the first failing step in
\* the order ignored versions, v3 arguments, ipsets, filters, error
\* actions, reporting plugins; no step after the failing one has run: no
\* plugin is loaded when a validation fails, none for a later list when a
\* list fails, and within a list none for a filter after the failing one
\* nor for a filter whose own matchers failed.
C30_StepsInOrder ==
    \A n \in 1..nConfigs :
        LET doc == inputs[n].doc
            env == inputs[n].env
            e == StepErrors(doc, n, env)
            ipSets == addIpSets(doc).IpSets
        IN  /\ configErr[n] = FirstError(e)
            /\ (e[1] # nil \/ e[2] # nil \/ e[3] # nil) =>
                   LoadedFor(n, {"Filters", "PluginErrorActions", "Reporting"}) = {}
            /\ FirstError(SubSeq(e, 1, 4)) # nil =>
                   LoadedFor(n, {"PluginErrorActions", "Reporting"}) = {}
            /\ FirstError(SubSeq(e, 1, 5)) # nil => LoadedFor(n, {"Reporting"}) = {}
            /\ \A list \in {"Filters", "PluginErrorActions"} :
                  \A h \in LoadedFor(n, {list}) :
                      /\ \A i \in 1..h[3] :
                            addFilterObjs(NewFilter(doc[list][i], i), ipSets).err = nil
                      /\ \A i \in 1..(h[3] - 1) :
                            setAction(addFilterObjs(NewFilter(doc[list][i], i), ipSets),
                                      Handle(n, list, i),
                                      Outcome(env, doc[list][i].ActionName)).err = nil

\* a getConfig call has returned the error of the ignored versions on a
\* document whose v3 flags and ipsets are invalid as well and which has a
\* plugin filter, and has loaded no plugin
C30_Witness ==
    /\ \E n \in 1..nConfigs :
          LET e == StepErrors(inputs[n].doc, n, inputs[n].env)
          IN  /\ e[1] # nil /\ e[2] # nil /\ e[3] # nil
              /\ configErr[n] = e[1]
              /\ \E i \in DOMAIN inputs[n].doc.Filters :
                    inputs[n].doc.Filters[i].ActionName = "forward"
              /\ LoadedFor(n, {"Filters", "PluginErrorActions", "Reporting"}) = {}

(***************************************************************************)
(* Close errors during the teardown of a reload.                           *)
(***************************************************************************)
\* the snapshot that was live when the n-th getConfig call published its own
Superseded(n) ==
    CHOOSE m \in 1..(n - 1) :
        /\ snaps[m].teConfigured
        /\ \A k \in (m + 1)..(n - 1) : ~snaps[k].teConfigured

CountersNext ==
    \/ Starts({DocM})
    \/ /\ \A t \in Burst : trap[t].pc = "none"
       /\ teConfig # 0
       /\ snaps[teConfig].Reporting = << >>
       /\ Reloads({DocR})
    \/ Closes({nil})
    \/ Publish
    \/ \E t \in Burst : hup.pc = "idle" /\ Receives(t, CounterPackets)
    \/ \E t \in Burst : totalTrapsStore(t)
    \/ \E t \in Burst : trapHandlerCheck(t)
    \/ \E t \in Burst : processTrapBegin(t)
    \/ \E t \in Burst : processTrap(t)

SpecCounters == Init /\ [][CountersNext]_vars

\* the trapHandler calls that have returned
Completed == {t \in DOMAIN trap : trap[t].pc \in {"ignored", "done"}}

\* the snapshots through whose reporting lists counterInc has gone
CountedThrough ==
    {n \in 1..nConfigs : \E t \in DOMAIN trap : \E c \in Counters :
                             <<c, n>> \in trap[t].reads}

\* the calls of counterInc(c) made so far: each goes to every reporter of
\* the reporting list that was live
Value(c) ==
    Cardinality({<<t, k>> \in (DOMAIN trap) \X (1..4) : k <= trap[t].incs[c]})

\* C32: when every trapHandler call made so far has returned, and all of
\* them counted through one reporting list, the counters balance: total =
\* ignored + handled, total = v1 + v2c + v3, dropped <= handled.
C32_CountersBalance ==
    (/\ \A t \in DOMAIN trap : trap[t].pc = "none" \/ t \in Completed
     /\ \A n, m \in CountedThrough : n = m)
    => /\ Value(TrapCount) = Value(IgnoredTraps) + Value(HandledTraps)
       /\ Value(TrapCount) = Value(V1Traps) + Value(V2cTraps) + Value(V3Traps)
       /\ Value(DroppedTraps) <= Value(HandledTraps)
       /\ Value(TrapCount) = Cardinality(Completed)

\* two calls have returned, one for a trap of an ignored version and one
\* for a trap that was dropped, all counted by the reporter of one snapshot
C32_Witness ==
    /\ \A t \in DOMAIN trap : trap[t].pc = "none" \/ t \in Completed
    /\ \E n \in 1..nConfigs :
          /\ CountedThrough = {n}
          /\ snaps[n].Reporting # << >>
    /\ \E t, u \in Completed :
          /\ trap[t].pc = "ignored"
          /\ trap[u].Dropped
    /\ Value(DroppedTraps) >= 1
    /\ Value(IgnoredTraps) >= 1

(***************************************************************************)
(* Filters that list several versions.                                     *)
(***************************************************************************)
\* the trap record trapHandler builds for packet p
Probe(p) ==
    [SnmpVersion |-> p.Version, SrcIP |-> p.SrcIP,
     AgentAddress |-> p.AgentAddress, GenericTrap |-> p.GenericTrap,
     SpecificTrap |-> p.SpecificTrap, Enterprise |-> p.Enterprise]

\* the matchers of filter f on the version
VersionMatchers(f) ==
    {k \in DOMAIN f.matchers : f.matchers[k].filterItem = filterByVersion}

\* C33: the versions a filter lists are alternatives.  A filter of a built
\* snapshot matches a trap exactly if its other conditions hold of the trap
\* and the trap's version is one of the versions listed (any version for an
\* empty list); so some version satisfies all the version matchers of a
\* filter.
C33_VersionListIsAlternative ==
    \A n \in Built : \A f \in FiltersOf(snaps[n]) :
        /\ \A p \in CounterPackets :
              isMatched(f, Probe(p), snaps[n].IpSets)
              <=> /\ \A k \in DOMAIN f.matchers \ VersionMatchers(f) :
                        evalMatcher(f.matchers[k], Probe(p), snaps[n].IpSets)
                  /\ \/ f.SnmpVersions = << >>
                     \/ p.Version \in Named(f.SnmpVersions)
        /\ \E v \in Versions :
              \A k \in VersionMatchers(f) : f.matchers[k].filterValue = v

(***************************************************************************)
(* The reporters of a published snapshot.                                  *)
(***************************************************************************)
\* C34: every reporter of a published snapshot holds a plugin that was
\* looked up in the plugin path of the snapshot's own document and whose
\* Configure returned nil; and this holds of the first snapshot too: a
\* start-up whose steps return no error and whose reporters can all be
\* loaded publishes its snapshot.
C34_ReportersLoaded ==
    /\ \A n \in 1..nConfigs :
          snaps[n].teConfigured =>
              \A i \in DOMAIN snaps[n].Reporting :
                  LET e == snaps[n].Reporting[i]
                  IN  /\ e.plugin \in DOMAIN plugins
                      /\ plugins[e.plugin].state = "configured"
                      /\ e.via # 0
                      /\ snaps[e.via].PluginPath = inputs[n].doc.PluginPath
    /\ (nConfigs = 1 /\ mainPc = "exited" /\ configErr[1] = nil) =>
          \E i \in DOMAIN inputs[1].doc.Reporting :
              Outcome(inputs[1].env, inputs[1].doc.Reporting[i]) # "ok"

(***************************************************************************)
(* The capture plugin: one trapCapture object, configured once, and the    *)
(* ProcessTrap calls made on it, which may run at the same time for        *)
(* distinct traps.                                                         *)
(***************************************************************************)
\* the file formats a configuration may name; an empty one means gob
CaptureFormats == {"", "gob", "json"}

\* Configure looks at the names of the arguments only
trapCaptureConfigure ==
    /\ ~capture.configured
    /\ \E format \in CaptureFormats :
         capture' = [capture EXCEPT !.configured = TRUE,
                                    !.dir = "spool",
                                    !.fileExpr = "captureFile",
                                    !.fileFormat = IF format = "" THEN "gob" ELSE format]
    /\ UNCHANGED <<environ, teCmdLine, mainPc, teConfig, snaps, nConfigs, configErr, inputs,
                   plugins, hup, usr2, trap, totalTraps, errs>>

\* dir + "/" + fileExpr + "-<counter>.<format>", as its parts
makeCaptureFilename(dir, fileExpr, format, counter) ==
    <<dir, "/", fileExpr, "-", counter, ".", format>>

\* ProcessTrap is entered: the file name is made from a.counter
trapCaptureProcessTrap(c) ==
    /\ capture.configured
    /\ capture.call[c].pc = "none"
    /\ \A d \in Burst : d < c => capture.call[d].pc # "none"
    /\ capture' = [capture EXCEPT !.call[c] =
           [@ EXCEPT !.pc = "named",
                     !.used = capture.counter,
                     !.filename = makeCaptureFilename(capture.dir, capture.fileExpr,
                                                      capture.fileFormat, capture.counter)]]
    /\ UNCHANGED <<environ, teCmdLine, mainPc, teConfig, snaps, nConfigs, configErr, inputs,
                   plugins, hup, usr2, trap, totalTraps, errs>>

\* the file of call c is created, an existing file of that name truncated
created(files, name, c) ==
    [f \in DOMAIN files \cup {name} |->
        IF f = name
        THEN IF f \in DOMAIN files THEN Append(files[f], c) ELSE <<c>>
        ELSE files[f]]

\* the switch on the format: saveCaptureGob, or the return for a format
\* that is not gob, which leaves the counter as it is
saveCaptureGob(c) ==
    /\ capture.call[c].pc = "named"
    /\ IF capture.fileFormat \in {"gob", ""}
       THEN \E err \in {nil, "error"} :
              capture' = [capture EXCEPT
                  !.files = IF err = nil THEN created(@, capture.call[c].filename, c) ELSE @,
                  !.call[c] = [@ EXCEPT !.pc = "saved", !.err = err]]
       ELSE capture' = [capture EXCEPT
                  !.call[c] = [@ EXCEPT !.pc = "returned", !.err = "Unknown file format"]]
    /\ UNCHANGED <<environ, teCmdLine, mainPc, teConfig, snaps, nConfigs, configErr, inputs,
                   plugins, hup, usr2, trap, totalTraps, errs>>

\* `a.counter++` reads the counter.  counter is a plain int that no lock
\* guards
counterLoad(c) ==
    /\ capture.call[c].pc = "saved"
    /\ capture' = [capture EXCEPT !.call[c] =
           [@ EXCEPT !.pc = "loaded", !.loaded = capture.counter]]
    /\ UNCHANGED <<environ, teCmdLine, mainPc, teConfig, snaps, nConfigs, configErr, inputs,
                   plugins, hup, usr2, trap, totalTraps, errs>>

\* `a.counter++` writes back what it read plus one, and ProcessTrap returns
counterStore(c) ==
    /\ capture.call[c].pc = "loaded"
    /\ capture' = [capture EXCEPT !.counter = capture.call[c].loaded + 1,
                                  !.call[c] = [@ EXCEPT !.pc = "returned"]]
    /\ UNCHANGED <<environ, teCmdLine, mainPc, teConfig, snaps, nConfigs, configErr, inputs,
                   plugins, hup, usr2, trap, totalTraps, errs>>

CaptureNext ==
    \/ trapCaptureConfigure
    \/ \E c \in Burst : trapCaptureProcessTrap(c)
    \/ \E c \in Burst : saveCaptureGob(c)
    \/ \E c \in Burst : counterLoad(c)
    \/ \E c \in Burst : counterStore(c)

SpecCapture == Init /\ [][CaptureNext]_vars

\* C35: every ProcessTrap call on the capture plugin has a file of its own
\* and moves the counter on by one.  No two calls make their file name from
\* the same counter value, no file is created by two calls, and when no call
\* is under way the counter is the number of calls that have returned.
C35_OneFilePerTrap ==
    /\ \A c, d \in Burst :
          (c # d /\ capture.call[c].pc # "none" /\ capture.call[d].pc # "none")
          => capture.call[c].used # capture.call[d].used
    /\ \A f \in DOMAIN capture.files : Len(capture.files[f]) = 1
    /\ (\A c \in Burst : capture.call[c].pc \in {"none", "returned"})
          => capture.counter
               = Cardinality({c \in Burst : capture.call[c].pc = "returned"})

(***************************************************************************)
(* The forwarder's port.                                                   *)
(***************************************************************************)
ForwardNext ==
    \/ Starts(ForwardDocs)
    \/ Reloads(ForwardDocs)
    \/ closeHandles
    \/ Publish

SpecForward == Init /\ [][ForwardNext]_vars

\* a UDP port in decimal: digits only, at most 65535
ValidPort(port_str) ==
    /\ port_str # EmptyStr
    /\ \A i \in DOMAIN port_str : port_str[i] \in Digits
    /\ Atoi(port_str).n <= 65535

\* the forwarders a document asks for, each with its port argument
ForwardPorts(doc) ==
    {doc.Filters[i].port :
        i \in {j \in DOMAIN doc.Filters : doc.Filters[j].ActionName = "forward"}}
    \cup {doc.PluginErrorActions[i].port :
        i \in {j \in DOMAIN doc.PluginErrorActions :
                  doc.PluginErrorActions[j].ActionName = "forward"}}

\* C36: a document with a forwarder whose port is not a valid UDP port
\* makes getConfig return an error.  Its snapshot is never published, and
\* on a reload the process goes on running with the snapshot it had.
C36_InvalidPortRejected ==
    \A n \in 1..nConfigs :
        (\E port_str \in ForwardPorts(inputs[n].doc) : ~ValidPort(port_str))
        => /\ configErr[n] # nil
           /\ ~snaps[n].teConfigured
           /\ teConfig # n
           /\ n > 1 => mainPc = "running"

====
